---- MODULE Spec2Model ----
(***************************************************************************)
(* State-machine model of the client-side session / data-synchronisation   *)
(* core of DeTuiTra: src/src/context/AppContext.tsx (AppProvider).          *)
(*                                                                         *)
(* AppProvider is a React function component.  Its state lives in useState *)
(* cells; every async handler runs atomically between two awaits, so one   *)
(* action of the model is one such run: the part of a handler up to its    *)
(* await (…Call / …Start / AuthStateChanged) or the part after it          *)
(* (…Settle).  A pending await is an entry of the bag `inflight`; the      *)
(* values a handler's closure captured when it was called are stored in    *)
(* that entry, because the code reads them again after the await.          *)
(***************************************************************************)
EXTENDS Integers, Sequences, FiniteSets, Bags, TLC

VARIABLES
    currentUser,          \* useState<User | null>(null)            line 62
    funds,                \* useState<Fund[]>([])                   line 63
    transactions,         \* useState<Transaction[]>([])            line 64
    selectedFund,         \* useState<Fund | null>(null)            line 65
    isAuthLoading,        \* useState<boolean>(true)                line 66
    authInitialized,      \* useState<boolean>(false)               line 67
    isLoading,            \* useState<boolean>(false)               line 68
    users,                \* useState<Record<string, User>>({})     line 69
    hasInitiallyLoaded,   \* useState<boolean>(false)               line 70
    sessionStorage,       \* the 'currentUser' slot of sessionStorage
    hasRestoredFromCache, \* let hasRestoredFromCache               line 480
    phase,                \* "constructed" | "running" | "torndown"
    loadingTimeout,       \* the setTimeout handle of line 560
    intervalId,           \* the interval of line 590: the fund its callback
                          \* closed over and the time since it last fired
    now,                  \* the clock, in milliseconds
    inflight,             \* bag of pending remote calls
    dashboard,            \* the Dashboard page: mounted, its effect and
                          \* useState(false) of Dashboard.tsx line 16
    signedOut,            \* history: a sign-out event was handled and no
                          \* sign-in event has arrived since
    last                  \* history: the handler run that produced this state

vars == << currentUser, funds, transactions, selectedFund, isAuthLoading,
           authInitialized, isLoading, users, hasInitiallyLoaded,
           sessionStorage, hasRestoredFromCache, phase, loadingTimeout,
           intervalId, now, inflight, signedOut, dashboard, last >>

(***************************************************************************)
(* Bounds of the model.                                                    *)
(***************************************************************************)
\* Pending remote calls at any moment.
MaxInFlight == 2
\* Length of the local funds array.
MaxFunds == 2
\* Granularity of the clock.
TimeStep == 1500

(***************************************************************************)
(* JavaScript values.                                                      *)
(***************************************************************************)
\* null / undefined where a string is expected
JsNull == "<null>"
\* null where an object is expected
NULL == [null |-> TRUE]
\* a || b on strings: null, undefined and "" are falsy
OrElse(a, b) == IF a \in {JsNull, ""} THEN b ELSE a

UserIds == {"A", "B"}
UserFields == {"id", "displayName", "email", "photoURL", "bankAccount"}

\* The identity the authentication provider hands to onAuthStateChange.
FirebaseUsers ==
    { [uid |-> "A", displayName |-> "Ann", email |-> "a@x", photoURL |-> "a.png"],
      [uid |-> "B", displayName |-> JsNull, email |-> "", photoURL |-> JsNull] }

\* The profile documents the remote store may hold for a user id.
RemoteProfiles(uid) ==
    { [id |-> uid, displayName |-> "Dr " \o uid, email |-> uid \o "@db",
       photoURL |-> "", bankAccount |-> b] : b \in {JsNull, "acct"} }

\* A serialisation that leaves the bank account out.
JsonStringifyNoBankAccount(u) ==
    [k \in {f \in DOMAIN u : u[f] # JsNull /\ f # "bankAccount"} |-> u[k]]

\* JSON.stringify of a user: keys whose value is undefined are left out.
JsonStringify(u) ==
    [k \in {f \in DOMAIN u : u[f] # JsNull} |-> u[k]]
\* A slot content JSON.parse (or the property read after it) throws on.
Garbage == [garbage |-> TRUE]
\* JSON.parse of a stored user: a key that is absent reads as undefined.
JsonParse(s) ==
    [k \in UserFields |-> IF k \in DOMAIN s THEN s[k] ELSE JsNull]

\* What an earlier run of the program, or anything else, left in the slot.
StoredSnapshots ==
    { <<>>, <<Garbage>> }
    \cup { <<JsonStringify(u)>> : u \in {v \in RemoteProfiles("A") :
                                            v.bankAccount # JsNull} }

\* convertFirebaseUser without the default of displayName.
convertFirebaseUserNoDefault(firebaseUser) ==
    [ id          |-> firebaseUser.uid,
      displayName |-> firebaseUser.displayName,
      email       |-> OrElse(firebaseUser.email, ""),
      photoURL    |-> OrElse(firebaseUser.photoURL, ""),
      bankAccount |-> JsNull ]

\* convertFirebaseUser, lines 73-80
convertFirebaseUser(firebaseUser) ==
    [ id          |-> firebaseUser.uid,
      displayName |-> OrElse(firebaseUser.displayName, "User"),
      email       |-> OrElse(firebaseUser.email, ""),
      photoURL    |-> OrElse(firebaseUser.photoURL, ""),
      bankAccount |-> JsNull ]

\* What the closures of the mount effect (deps []) see: the first render.
EffectClosure ==
    [ currentUser |-> NULL, authInitialized |-> FALSE, funds |-> <<>> ]

NoUsers == [id \in {} |-> NULL]
NoTimer == [fundId |-> JsNull, elapsed |-> 0]

InFlightCount == BagCardinality(inflight)
\* The bound on pending calls leaves room for k more.
Room(k) == InFlightCount + k <= MaxInFlight
Issue(r) == inflight (+) SetToBag({r})
Settle(r) == inflight (-) SetToBag({r})
Pending == BagToSet(inflight)

(***************************************************************************)
(* Funds and transactions as the remote store returns them.                *)
(***************************************************************************)
FundIds == {"f1", "f2"}
\* Fund documents of the remote store (f1 in two versions).
RemoteFunds ==
    { [id |-> "f1", name |-> "Trip", members |-> <<"A", "B">>],
      [id |-> "f1", name |-> "Trip v2", members |-> <<"A", "B">>],
      [id |-> "f2", name |-> "Rent", members |-> <<"B">>] }

SeqIds(s) == {s[i].id : i \in DOMAIN s}
UniqueIds(s) == \A i, j \in DOMAIN s : s[i].id = s[j].id => i = j
IdOf(f) == IF f = NULL THEN JsNull ELSE f.id

\* Results of getUserFunds: fund documents, no id twice.
FundResponses ==
    { s \in UNION { [1..n -> RemoteFunds] : n \in 0..MaxFunds } : UniqueIds(s) }

\* The fund createFirebaseFund returns: the id is assigned by the store.
CreatedFund(ownerId) ==
    [id |-> "f3", name |-> "New", members |-> <<ownerId>>]

\* Map.prototype.set on an insertion-ordered Map keyed by fund id.
MapSet(m, f) ==
    IF \E i \in DOMAIN m : m[i].id = f.id
    THEN [i \in DOMAIN m |-> IF m[i].id = f.id THEN f ELSE m[i]]
    ELSE Append(m, f)

RECURSIVE MapSetAll(_, _)
MapSetAll(m, s) ==
    IF s = <<>> THEN m ELSE MapSetAll(MapSet(m, Head(s)), Tail(s))

\* loadUserFunds, lines 260-270: existing funds first, then the fetched ones.
MergeFunds(existing, userFunds) ==
    MapSetAll(MapSetAll(<<>>, existing), userFunds)

\* Date.now(): the page was mounted at MountTime.
MountTime == 100000
DateNow == MountTime + now

\* Transaction documents of fund fundId as getFundTransactions returns them;
\* a key that is absent is a field that is missing (or, for amount and
\* splits, of the wrong type) in the document.
RawTransactions(fundId) ==
    { [id |-> "t1", fundId |-> fundId, description |-> "Lunch", amount |-> 100,
       paidBy |-> "A",
       splits |-> << [userId |-> "A", amount |-> -50],
                     [userId |-> "B", amount |-> 50] >>,
       createdAt |-> 10, date |-> 20],
      [id |-> "t2", fundId |-> fundId, description |-> "", paidBy |-> "B",
       createdAt |-> 30],
      [id |-> "t3", description |-> "Taxi", amount |-> 40, paidBy |-> "B",
       splits |-> << [userId |-> "B", amount |-> 40] >>, date |-> 20] }

TransactionResponses(fundId) ==
    { s \in UNION { [1..n -> RawTransactions(fundId)] : n \in 0..2 } : UniqueIds(s) }

\* t.k || d for a string field, t.k being undefined when the key is absent
StrField(t, k, d) == IF k \in DOMAIN t THEN OrElse(t[k], d) ELSE d
\* t.k || d for a numeric field: 0 is falsy
NumField(t, k, d) == IF k \in DOMAIN t /\ t[k] # 0 THEN t[k] ELSE d

\* loadFundTransactions, lines 301-315
ValidTransaction(t, fundId) ==
    [ id          |-> StrField(t, "id", "unknown"),
      fundId      |-> StrField(t, "fundId", fundId),
      description |-> StrField(t, "description", "Giao dich"),
      amount      |-> IF "amount" \in DOMAIN t THEN t.amount ELSE 0,
      paidBy      |-> StrField(t, "paidBy", ""),
      splits      |-> IF "splits" \in DOMAIN t THEN t.splits ELSE <<>>,
      createdAt   |-> NumField(t, "createdAt", DateNow),
      date        |-> NumField(t, "date", NumField(t, "createdAt", DateNow)) ]

\* The comparator of line 318: negative when a sorts before b.
EffectiveDate(t) == IF t.date # 0 THEN t.date ELSE t.createdAt
CompareByDate(a, b) == EffectiveDate(b) - EffectiveDate(a)

\* Array.prototype.sort is stable: insert each element after the elements
\* that do not sort after it.
RECURSIVE InsertSorted(_, _)
InsertSorted(s, t) ==
    IF s = <<>> THEN <<t>>
    ELSE IF CompareByDate(Head(s), t) <= 0
         THEN <<Head(s)>> \o InsertSorted(Tail(s), t)
         ELSE <<t>> \o s

RECURSIVE SortByDate(_)
SortByDate(s) ==
    IF s = <<>> THEN <<>>
    ELSE InsertSorted(SortByDate(SubSeq(s, 1, Len(s) - 1)), s[Len(s)])

\* A load that appends its result to the transactions already held.
ProcessTransactionsAppended(fundTransactions, fundId) ==
    transactions \o [i \in DOMAIN fundTransactions |->
                        ValidTransaction(fundTransactions[i], fundId)]

\* loadFundTransactions, lines 294-324: the array handed to setTransactions
ProcessTransactions(fundTransactions, fundId) ==
    IF Len(fundTransactions) = 0 THEN <<>>
    ELSE SortByDate([i \in DOMAIN fundTransactions |->
                        ValidTransaction(fundTransactions[i], fundId)])

(***************************************************************************)
(* Pending calls and the history variable.                                 *)
(***************************************************************************)
\* The state a sign-out is to clear.
Core == << currentUser, funds, transactions, users, sessionStorage >>

\* A request record; `late` (history) becomes TRUE when a sign-out event is
\* handled while the call is pending.
Request(op, args) == [op |-> op, late |-> FALSE] @@ args
Request0(op) == [op |-> op, late |-> FALSE]

MarkLate(r) == [r EXCEPT !.late = TRUE]
Unmarked(r) == [r EXCEPT !.late = FALSE]
CountOf(r) == IF r \in Pending THEN inflight[r] ELSE 0
\* Every pending call marked late.
AllLate ==
    [ r \in {MarkLate(x) : x \in Pending} |-> CountOf(r) + CountOf(Unmarked(r)) ]

\* `last` after the continuation of pending call r has run.
Settled0(r, name) == last' = [op |-> name, late |-> r.late]
Settled(r, name, extra) == last' = [op |-> name, late |-> r.late] @@ extra

\* loadUserFunds(userId) up to its await, called through a closure that
\* holds closureFunds as `funds` (lines 253-258).
LoadUserFundsRequest(userId, closureFunds) ==
    Request("getUserFunds", [userId |-> userId, funds |-> closureFunds])

(***************************************************************************)
(* The Dashboard page as the provider's state changes reach it.            *)
(***************************************************************************)
\* The page is not rendered.
NoDashboard ==
    [mounted |-> FALSE, usersLoadingForFunds |-> FALSE, effectDue |-> FALSE]

\* What a step of the provider does to the page (Dashboard.tsx lines
\* 20-46): the effect is due again when one of its dependencies [funds,
\* hasInitiallyLoaded, loadUsers] is a new value, loadUsers being
\* useCallback(..., [currentUser?.id, users]) (AppContext.tsx line 150);
\* fresh says that the step handed a new array to setFunds or a new object
\* to setUsers.  The finally of line 42 runs when a loadUsers call of the
\* page settles.
DashboardAfter(fresh, settledCaller) ==
    dashboard' =
      IF ~dashboard.mounted THEN dashboard
      ELSE [ mounted |-> TRUE,
             usersLoadingForFunds |->
                IF settledCaller = "Dashboard" THEN FALSE
                ELSE dashboard.usersLoadingForFunds,
             effectDue |->
                \/ dashboard.effectDue
                \/ fresh
                \/ hasInitiallyLoaded' # hasInitiallyLoaded
                \/ IdOf(currentUser') # IdOf(currentUser) ]

DashboardSees(fresh) == DashboardAfter(fresh, "")

(***************************************************************************)
(* Construction.                                                           *)
(***************************************************************************)
Init ==
    /\ currentUser = NULL
    /\ funds = <<>>
    /\ transactions = <<>>
    /\ selectedFund = NULL
    /\ isAuthLoading = TRUE
    /\ authInitialized = FALSE
    /\ isLoading = FALSE
    /\ users = NoUsers
    /\ hasInitiallyLoaded = FALSE
    /\ sessionStorage \in StoredSnapshots
    /\ hasRestoredFromCache = FALSE
    /\ phase = "constructed"
    /\ loadingTimeout = "unset"
    /\ intervalId = NoTimer
    /\ now = 0
    /\ inflight = EmptyBag
    /\ signedOut = FALSE
    /\ dashboard = NoDashboard
    /\ last = [op |-> "construct"]

(***************************************************************************)
(* Session manager: the mount effect, lines 478-573.                       *)
(***************************************************************************)
\* The delay of the loading timeout.
AuthTimeoutMs == 3000

\* The effect body: restore from sessionStorage, subscribe, arm the timeout.
Initialize ==
    /\ phase = "constructed"
    /\ phase' = "running"
    /\ loadingTimeout' = "armed"
    /\ IF sessionStorage = <<>>
       THEN UNCHANGED << currentUser, isAuthLoading, hasRestoredFromCache,
                         sessionStorage, isLoading, inflight >>
       ELSE IF sessionStorage[1] = Garbage
       THEN /\ sessionStorage' = <<>>
            /\ UNCHANGED << currentUser, isAuthLoading, hasRestoredFromCache,
                            isLoading, inflight >>
       ELSE LET parsedUser == JsonParse(sessionStorage[1]) IN
            /\ currentUser' = parsedUser
            /\ isAuthLoading' = FALSE
            /\ hasRestoredFromCache' = TRUE
            /\ isLoading' = TRUE
            /\ inflight' = Issue(LoadUserFundsRequest(parsedUser.id,
                                                      EffectClosure.funds))
            /\ UNCHANGED sessionStorage
    /\ last' = [op |-> "initialize"]
    /\ UNCHANGED << funds, transactions, selectedFund, authInitialized, users,
                    hasInitiallyLoaded, intervalId, now, signedOut >>
    /\ DashboardSees(FALSE)

\* Time passes while the loading timeout is armed.
Tick ==
    /\ phase = "running"
    /\ loadingTimeout = "armed"
    /\ now < AuthTimeoutMs
    /\ now' = now + TimeStep
    /\ last' = [op |-> "tick"]
    /\ UNCHANGED << currentUser, funds, transactions, selectedFund,
                    isAuthLoading, authInitialized, isLoading, users,
                    hasInitiallyLoaded, sessionStorage, hasRestoredFromCache,
                    phase, loadingTimeout, intervalId, inflight, signedOut >>
    /\ DashboardSees(FALSE)

\* A timeout whose guard reads the flag the wrong way round.
TimeoutGuardInverted == EffectClosure.authInitialized

\* The guard of the timeout callback, line 561: authInitialized is the
\* constant of the render the effect closed over.
TimeoutGuard == ~EffectClosure.authInitialized

\* The timeout callback, lines 560-566.
LoadingTimeoutFires ==
    /\ phase = "running"
    /\ loadingTimeout = "armed"
    /\ now >= AuthTimeoutMs
    /\ loadingTimeout' = "fired"
    /\ IF TimeoutGuard
       THEN isAuthLoading' = FALSE /\ authInitialized' = TRUE
       ELSE UNCHANGED << isAuthLoading, authInitialized >>
    /\ last' = [op |-> "timeout", first |-> ~authInitialized]
    /\ UNCHANGED << currentUser, funds, transactions, selectedFund, isLoading,
                    users, hasInitiallyLoaded, sessionStorage,
                    hasRestoredFromCache, phase, intervalId, now, inflight,
                    signedOut >>
    /\ DashboardSees(FALSE)

\* The effect cleanups, lines 569-572 and 596.  An unmounted provider has
\* no state: nothing of the model runs after it.
Teardown ==
    /\ phase = "running"
    /\ phase' = "torndown"
    /\ loadingTimeout' = IF loadingTimeout = "armed" THEN "cleared"
                         ELSE loadingTimeout
    /\ intervalId' = NoTimer
    /\ last' = [op |-> "teardown"]
    /\ UNCHANGED << currentUser, funds, transactions, selectedFund,
                    isAuthLoading, authInitialized, isLoading, users,
                    hasInitiallyLoaded, sessionStorage, hasRestoredFromCache,
                    now, inflight, signedOut >>
    /\ DashboardSees(FALSE)

\* Line 509: the callback reads the currentUser of the render it closed over.
AlreadyLoaded(firebaseUser) ==
    /\ EffectClosure.currentUser # NULL
    /\ EffectClosure.currentUser.id = firebaseUser.uid
    /\ hasRestoredFromCache

\* setAuthInitialized(!!firebaseUser) in place of line 505.
AuthInitializedIfUser(firebaseUser) == firebaseUser # NULL

\* Line 505.
AuthInitializedOnEvent(firebaseUser) == TRUE

\* onAuthStateChange callback with a user, up to its await (lines 503-525).
AuthSignedIn(firebaseUser) ==
    /\ phase = "running"
    /\ Room(1)
    /\ authInitialized' = AuthInitializedOnEvent(firebaseUser)
    /\ inflight' = Issue(Request("syncUserWithFirestore",
            [ firebaseUser |-> firebaseUser,
              verifyOnly |-> AlreadyLoaded(firebaseUser),
              held |-> IdOf(currentUser) ]))
    /\ signedOut' = FALSE
    /\ last' = [op |-> "authenticated"]
    /\ UNCHANGED << currentUser, funds, transactions, selectedFund,
                    isAuthLoading, isLoading, users, hasInitiallyLoaded,
                    sessionStorage, hasRestoredFromCache, phase,
                    loadingTimeout, intervalId, now >>
    /\ DashboardSees(FALSE)

\* A sign-out that keeps the users cache.
SignedOutUsersKept == users

\* Line 552.
SignedOutUsers == NoUsers

\* onAuthStateChange callback with null (lines 503-505, 546-556).
AuthSignedOut ==
    /\ phase = "running"
    /\ authInitialized' = AuthInitializedOnEvent(NULL)
    /\ currentUser' = NULL
    /\ funds' = <<>>
    /\ transactions' = <<>>
    /\ users' = SignedOutUsers
    /\ hasInitiallyLoaded' = FALSE
    /\ sessionStorage' = <<>>
    /\ isAuthLoading' = FALSE
    /\ inflight' = AllLate
    /\ signedOut' = TRUE
    /\ DashboardSees(TRUE)
    /\ last' = [ op |-> "signedOut",
                 populated |-> /\ currentUser # NULL
                               /\ funds # <<>>
                               /\ transactions # <<>>
                               /\ users # NoUsers
                               /\ sessionStorage # <<>> ]
    /\ UNCHANGED << selectedFund, isLoading, hasRestoredFromCache, phase,
                    loadingTimeout, intervalId, now >>

\* The continuation after syncUserWithFirestore resolved with fullUser
\* (lines 513-519, or 525-536 and 543-545).
SyncResolved(r, fullUser) ==
    /\ phase = "running"
    /\ r.op = "syncUserWithFirestore"
    /\ isAuthLoading' = FALSE
    /\ IF r.verifyOnly
       THEN /\ inflight' = Settle(r)
            /\ UNCHANGED << currentUser, sessionStorage, isLoading >>
       ELSE /\ currentUser' = fullUser
            /\ sessionStorage' = << JsonStringify(fullUser) >>
            /\ IF ~hasRestoredFromCache
               THEN /\ isLoading' = TRUE
                    /\ inflight' = Settle(r) (+) SetToBag(
                          {LoadUserFundsRequest(fullUser.id, EffectClosure.funds)})
               ELSE /\ inflight' = Settle(r)
                    /\ UNCHANGED isLoading
    /\ UNCHANGED << funds, transactions, selectedFund, authInitialized, users,
                    hasInitiallyLoaded, hasRestoredFromCache, phase,
                    loadingTimeout, intervalId, now, signedOut >>
    /\ DashboardSees(FALSE)
    /\ Settled(r, "syncResolved",
               [ firebaseUser |-> r.firebaseUser, held |-> r.held,
                 threw |-> FALSE ])

\* The continuation after syncUserWithFirestore rejected
\* (lines 515-519, or 537-545).
SyncRejected(r) ==
    /\ phase = "running"
    /\ r.op = "syncUserWithFirestore"
    /\ isAuthLoading' = FALSE
    /\ inflight' = Settle(r)
    /\ IF r.verifyOnly
       THEN UNCHANGED << currentUser, sessionStorage >>
       ELSE LET basicUser == convertFirebaseUser(r.firebaseUser) IN
            /\ currentUser' = basicUser
            /\ sessionStorage' = << JsonStringify(basicUser) >>
    /\ UNCHANGED << funds, transactions, selectedFund, authInitialized,
                    isLoading, users, hasInitiallyLoaded, hasRestoredFromCache,
                    phase, loadingTimeout, intervalId, now, signedOut >>
    /\ DashboardSees(FALSE)
    /\ Settled(r, "syncRejected",
               [ firebaseUser |-> r.firebaseUser, held |-> r.held,
                 threw |-> FALSE ])

(***************************************************************************)
(* The effects on selectedFund, lines 576-597.  They run after the render  *)
(* that follows a setSelectedFund, so they are part of the handler run     *)
(* that called it.  A new value counts as a new object.                    *)
(***************************************************************************)
LoadTransactionsRequest(fundId) ==
    Request("getFundTransactions", [fundId |-> fundId])

\* The loadFundTransactions calls of lines 578 and 587, as a bag.
SelectionLoads(old, new) ==
    IF new = NULL \/ new = old THEN EmptyBag
    ELSE [ r \in {LoadTransactionsRequest(new.id)} |->
              IF new.id # IdOf(old) THEN 2 ELSE 1 ]

\* An effect without cleanup: deselecting leaves the interval running.
SelectionIntervalLeaked(old, new) ==
    IF IdOf(new) = IdOf(old) \/ new = NULL THEN intervalId
    ELSE [fundId |-> new.id, elapsed |-> 0]

\* The interval after the cleanup and the body of the effect of line 583;
\* its callback loads the fund the effect closed over.
SelectionInterval(old, new) ==
    IF IdOf(new) = IdOf(old) THEN intervalId
    ELSE IF new = NULL THEN NoTimer ELSE [fundId |-> new.id, elapsed |-> 0]

\* setSelectedFund(new) and the effects it triggers; `pending` is the bag
\* the calls are added to, `loading` the value setIsLoading gave so far.
Select(new, pending, loading) ==
    /\ selectedFund' = new
    /\ intervalId' = SelectionInterval(selectedFund, new)
    /\ inflight' = pending (+) SelectionLoads(selectedFund, new)
    /\ isLoading' = IF SelectionLoads(selectedFund, new) # EmptyBag
                    THEN TRUE ELSE loading

\* A consumer calls setSelectedFund with one of the funds, or null.
SelectFund(fund) ==
    /\ phase = "running"
    /\ Room(BagCardinality(SelectionLoads(selectedFund, fund)))
    /\ fund # selectedFund
    /\ Select(fund, inflight, isLoading)
    /\ last' = [op |-> "select"]
    /\ UNCHANGED << currentUser, funds, transactions, isAuthLoading,
                    authInitialized, users, hasInitiallyLoaded, sessionStorage,
                    hasRestoredFromCache, phase, loadingTimeout, now,
                    signedOut >>
    /\ DashboardSees(FALSE)

\* The period of the interval, line 594.
RefreshPeriodMs == 30000
\* Time passes in steps of RefreshStep for a running interval.
RefreshStep == 10000

\* Time passes while the interval is not due.
IntervalTick ==
    /\ phase = "running"
    /\ intervalId # NoTimer
    /\ intervalId.elapsed < RefreshPeriodMs
    /\ intervalId' = [intervalId EXCEPT !.elapsed = @ + RefreshStep]
    /\ last' = [op |-> "intervalTick"]
    /\ UNCHANGED << currentUser, funds, transactions, selectedFund,
                    isAuthLoading, authInitialized, isLoading, users,
                    hasInitiallyLoaded, sessionStorage, hasRestoredFromCache,
                    phase, loadingTimeout, now, inflight, signedOut >>
    /\ DashboardSees(FALSE)

\* The interval callback, lines 590-594, run when the interval is due.
RefreshInterval ==
    /\ phase = "running"
    /\ Room(1)
    /\ intervalId # NoTimer
    /\ intervalId.elapsed >= RefreshPeriodMs
    /\ intervalId' = [intervalId EXCEPT !.elapsed = 0]
    /\ isLoading' = TRUE
    /\ inflight' = Issue(LoadTransactionsRequest(intervalId.fundId))
    /\ last' = [op |-> "refresh", fundId |-> intervalId.fundId]
    /\ UNCHANGED << currentUser, funds, transactions, selectedFund,
                    isAuthLoading, authInitialized, users, hasInitiallyLoaded,
                    sessionStorage, hasRestoredFromCache, phase,
                    loadingTimeout, now, signedOut >>
    /\ DashboardSees(FALSE)

\* loadFundTransactions after getFundTransactions resolved (lines 292-324,
\* 328-330).
TransactionsLoaded(r, fundTransactions) ==
    /\ phase = "running"
    /\ r.op = "getFundTransactions"
    /\ transactions' = ProcessTransactions(fundTransactions, r.fundId)
    /\ isLoading' = FALSE
    /\ inflight' = Settle(r)
    /\ UNCHANGED << currentUser, funds, selectedFund, isAuthLoading,
                    authInitialized, users, hasInitiallyLoaded, sessionStorage,
                    hasRestoredFromCache, phase, loadingTimeout, intervalId,
                    now, signedOut >>
    /\ DashboardSees(FALSE)
    /\ Settled(r, "transactionsLoaded",
               [fundId |-> r.fundId, response |-> fundTransactions,
                held |-> Len(transactions)])

\* loadFundTransactions after getFundTransactions rejected (lines 325-330).
TransactionsFailed(r) ==
    /\ phase = "running"
    /\ r.op = "getFundTransactions"
    /\ isLoading' = FALSE
    /\ inflight' = Settle(r)
    /\ UNCHANGED << currentUser, funds, transactions, selectedFund,
                    isAuthLoading, authInitialized, users, hasInitiallyLoaded,
                    sessionStorage, hasRestoredFromCache, phase,
                    loadingTimeout, intervalId, now, signedOut >>
    /\ DashboardSees(FALSE)
    /\ Settled(r, "transactionsFailed", [fundId |-> r.fundId])

(***************************************************************************)
(* login and logout, lines 83-114.                                         *)
(***************************************************************************)
LoginStart ==
    /\ phase = "running"
    /\ Room(1)
    /\ isAuthLoading' = TRUE
    /\ inflight' = Issue(Request0("loginWithGoogle"))
    /\ last' = [op |-> "login"]
    /\ UNCHANGED << currentUser, funds, transactions, selectedFund,
                    authInitialized, isLoading, users, hasInitiallyLoaded,
                    sessionStorage, hasRestoredFromCache, phase,
                    loadingTimeout, intervalId, now, signedOut >>
    /\ DashboardSees(FALSE)

\* A login that resets the flag on success only.
LoginFinallyOnSuccess(ok) == IF ok THEN FALSE ELSE isAuthLoading

\* The finally block of login, line 96.
LoginFinally(ok) == FALSE

\* login after loginWithGoogle settled; a rejection is thrown again.
LoginSettled(r, ok) ==
    /\ phase = "running"
    /\ r.op = "loginWithGoogle"
    /\ isAuthLoading' = LoginFinally(ok)
    /\ inflight' = Settle(r)
    /\ UNCHANGED << currentUser, funds, transactions, selectedFund,
                    authInitialized, isLoading, users, hasInitiallyLoaded,
                    sessionStorage, hasRestoredFromCache, phase,
                    loadingTimeout, intervalId, now, signedOut >>
    /\ DashboardSees(FALSE)
    /\ Settled(r, "loginSettled", [ok |-> ok, threw |-> ~ok])

LogoutStart ==
    /\ phase = "running"
    /\ Room(1)
    /\ isAuthLoading' = TRUE
    /\ inflight' = Issue(Request0("logoutUser"))
    /\ last' = [op |-> "logout"]
    /\ UNCHANGED << currentUser, funds, transactions, selectedFund,
                    authInitialized, isLoading, users, hasInitiallyLoaded,
                    sessionStorage, hasRestoredFromCache, phase,
                    loadingTimeout, intervalId, now, signedOut >>
    /\ DashboardSees(FALSE)

\* logout after logoutUser settled: setSelectedFund(null) on success only.
LogoutSettled(r, ok) ==
    /\ phase = "running"
    /\ r.op = "logoutUser"
    /\ isAuthLoading' = FALSE
    /\ IF ok
       THEN Select(NULL, Settle(r), isLoading)
       ELSE /\ inflight' = Settle(r)
            /\ UNCHANGED << selectedFund, intervalId, isLoading >>
    /\ UNCHANGED << currentUser, funds, transactions, authInitialized, users,
                    hasInitiallyLoaded, sessionStorage, hasRestoredFromCache,
                    phase, loadingTimeout, now, signedOut >>
    /\ DashboardSees(FALSE)
    /\ Settled(r, "logoutSettled", [ok |-> ok, threw |-> ~ok])

(***************************************************************************)
(* Fund store: loadUserFunds, createFund, fetchFundById.                   *)
(***************************************************************************)
\* A consumer calls loadUserFunds(currentUser.id) of the current render
\* (as addMemberByEmail does, line 235).
LoadUserFundsCall ==
    /\ phase = "running"
    /\ Room(1)
    /\ currentUser # NULL
    /\ currentUser.id # ""
    /\ isLoading' = TRUE
    /\ inflight' = Issue(LoadUserFundsRequest(currentUser.id, funds))
    /\ last' = [op |-> "loadUserFunds"]
    /\ UNCHANGED << currentUser, funds, transactions, selectedFund,
                    isAuthLoading, authInitialized, users, hasInitiallyLoaded,
                    sessionStorage, hasRestoredFromCache, phase,
                    loadingTimeout, intervalId, now, signedOut >>
    /\ DashboardSees(FALSE)

\* loadUserFunds called with a falsy userId (line 254): it returns at once.
LoadUserFundsNoId ==
    /\ phase = "running"
    /\ last' = [op |-> "loadUserFundsNoId"]
    /\ UNCHANGED << currentUser, funds, transactions, selectedFund,
                    isAuthLoading, authInitialized, isLoading, users,
                    hasInitiallyLoaded, sessionStorage, hasRestoredFromCache,
                    phase, loadingTimeout, intervalId, now, inflight,
                    signedOut >>
    /\ DashboardSees(FALSE)

\* loadUserFunds after getUserFunds resolved (lines 258-276, 281-283).
FundsLoaded(r, userFunds) ==
    /\ phase = "running"
    /\ r.op = "getUserFunds"
    /\ funds' = MergeFunds(r.funds, userFunds)
    /\ hasInitiallyLoaded' = TRUE
    /\ isLoading' = FALSE
    /\ inflight' = Settle(r)
    /\ UNCHANGED << currentUser, transactions, selectedFund, isAuthLoading,
                    authInitialized, users, sessionStorage,
                    hasRestoredFromCache, phase, loadingTimeout, intervalId,
                    now, signedOut >>
    /\ DashboardSees(TRUE)
    /\ Settled(r, "fundsLoaded",
               [userId |-> r.userId, fetched |-> SeqIds(userFunds)])

\* A catch block that leaves the flag as it is.
LoadedAfterFailureKept == hasInitiallyLoaded

\* The catch block of loadUserFunds, line 280.
LoadedAfterFailure == TRUE

\* loadUserFunds after getUserFunds rejected (lines 277-283).
FundsFailed(r) ==
    /\ phase = "running"
    /\ r.op = "getUserFunds"
    /\ hasInitiallyLoaded' = LoadedAfterFailure
    /\ isLoading' = FALSE
    /\ inflight' = Settle(r)
    /\ UNCHANGED << currentUser, funds, transactions, selectedFund,
                    isAuthLoading, authInitialized, users, sessionStorage,
                    hasRestoredFromCache, phase, loadingTimeout, intervalId,
                    now, signedOut >>
    /\ DashboardSees(FALSE)
    /\ Settled0(r, "fundsFailed")

\* createFund up to its await (lines 334-339).  The store assigns one new
\* id, so one creation is modelled per funds array.
CreateFundStart ==
    /\ phase = "running"
    /\ Room(1)
    /\ IF currentUser = NULL
       THEN /\ UNCHANGED << isLoading, inflight >>
            /\ last' = [op |-> "createFund", sent |-> FALSE,
                        returned |-> "undefined"]
       ELSE /\ Len(funds) < MaxFunds
            /\ CreatedFund(currentUser.id).id \notin SeqIds(funds)
            /\ \A r \in Pending : r.op # "createFund"
            /\ isLoading' = TRUE
            /\ inflight' = Issue(Request("createFund", [ownerId |-> currentUser.id]))
            /\ last' = [op |-> "createFund", sent |-> TRUE]
    /\ UNCHANGED << currentUser, funds, transactions, selectedFund,
                    isAuthLoading, authInitialized, users, hasInitiallyLoaded,
                    sessionStorage, hasRestoredFromCache, phase,
                    loadingTimeout, intervalId, now, signedOut >>
    /\ DashboardSees(FALSE)

\* createFund after createFirebaseFund resolved (lines 339-343, 348-350).
FundCreated(r) ==
    LET newFund == CreatedFund(r.ownerId) IN
    /\ phase = "running"
    /\ r.op = "createFund"
    /\ Room(1)
    /\ funds' = Append(funds, newFund)
    /\ Select(newFund, Settle(r), FALSE)
    /\ UNCHANGED << currentUser, transactions, isAuthLoading, authInitialized,
                    users, hasInitiallyLoaded, sessionStorage,
                    hasRestoredFromCache, phase, loadingTimeout, now,
                    signedOut >>
    /\ DashboardSees(TRUE)
    /\ Settled0(r, "fundCreated")

\* createFund after createFirebaseFund rejected (lines 344-350).
CreateFundFailed(r) ==
    /\ phase = "running"
    /\ r.op = "createFund"
    /\ isLoading' = FALSE
    /\ inflight' = Settle(r)
    /\ UNCHANGED << currentUser, funds, transactions, selectedFund,
                    isAuthLoading, authInitialized, users, hasInitiallyLoaded,
                    sessionStorage, hasRestoredFromCache, phase,
                    loadingTimeout, intervalId, now, signedOut >>
    /\ DashboardSees(FALSE)
    /\ Settled(r, "createFundFailed", [returned |-> "undefined", threw |-> FALSE])

(***************************************************************************)
(* Fund mutations: deleteFund and updateFund, lines 354-379 and 418-452.   *)
(* Neither is memoised: the selectedFund each reads after its await is     *)
(* that of the render in which it was called.                              *)
(***************************************************************************)
\* deleteFund up to its await (lines 354-359); without a current user it
\* returns false at once.
DeleteFundStart(fundId) ==
    /\ phase = "running"
    /\ Room(1)
    /\ IF currentUser = NULL
       THEN /\ UNCHANGED << isLoading, inflight >>
            /\ last' = [op |-> "deleteFund", sent |-> FALSE, returned |-> "false"]
       ELSE /\ isLoading' = TRUE
            /\ inflight' = Issue(Request("deleteFundService",
                   [fundId |-> fundId, selectedId |-> IdOf(selectedFund)]))
            /\ last' = [op |-> "deleteFund", sent |-> TRUE]
    /\ UNCHANGED << currentUser, funds, transactions, selectedFund,
                    isAuthLoading, authInitialized, users, hasInitiallyLoaded,
                    sessionStorage, hasRestoredFromCache, phase,
                    loadingTimeout, intervalId, now, signedOut >>
    /\ DashboardSees(FALSE)

\* A deleteFund that reports success whatever happened.
DeleteFundReturnsTrue(ok) == "true"

\* The value deleteFund returns, lines 370 and 375.
DeleteFundReturn(ok) == IF ok THEN "true" ELSE "false"

\* deleteFund after deleteFundService resolved (lines 359-370, 376-378).
FundDeleted(r) ==
    /\ phase = "running"
    /\ r.op = "deleteFundService"
    /\ funds' = SelectSeq(funds, LAMBDA f : f.id # r.fundId)
    /\ IF r.selectedId = r.fundId
       THEN Select(NULL, Settle(r), FALSE)
       ELSE /\ inflight' = Settle(r)
            /\ isLoading' = FALSE
            /\ UNCHANGED << selectedFund, intervalId >>
    /\ UNCHANGED << currentUser, transactions, isAuthLoading, authInitialized,
                    users, hasInitiallyLoaded, sessionStorage,
                    hasRestoredFromCache, phase, loadingTimeout, now,
                    signedOut >>
    /\ DashboardSees(TRUE)
    /\ Settled(r, "fundDeleted",
               [returned |-> DeleteFundReturn(TRUE), threw |-> FALSE,
                fundId |-> r.fundId])

\* deleteFund after deleteFundService rejected (lines 371-378).
DeleteFundFailed(r) ==
    /\ phase = "running"
    /\ r.op = "deleteFundService"
    /\ isLoading' = FALSE
    /\ inflight' = Settle(r)
    /\ UNCHANGED << currentUser, funds, transactions, selectedFund,
                    isAuthLoading, authInitialized, users, hasInitiallyLoaded,
                    sessionStorage, hasRestoredFromCache, phase,
                    loadingTimeout, intervalId, now, signedOut >>
    /\ DashboardSees(FALSE)
    /\ Settled(r, "deleteFundFailed",
               [returned |-> DeleteFundReturn(FALSE), threw |-> FALSE])

\* The partial fund data consumers pass to updateFund.
FundUpdates == { [name |-> "Renamed"] }

\* { ...fund, ...fundData }
Spread(fund, fundData) == fundData @@ fund

\* updateFund up to its await (lines 418-427).
UpdateFundStart(fundId, fundData) ==
    /\ phase = "running"
    /\ Room(1)
    /\ IF currentUser = NULL
       THEN /\ UNCHANGED << isLoading, inflight >>
            /\ last' = [op |-> "updateFund", sent |-> FALSE, returned |-> "false"]
       ELSE /\ isLoading' = TRUE
            /\ inflight' = Issue(Request("updateFirebaseFund",
                   [fundId |-> fundId, fundData |-> fundData,
                    selectedId |-> IdOf(selectedFund)]))
            /\ last' = [op |-> "updateFund", sent |-> TRUE]
    /\ UNCHANGED << currentUser, funds, transactions, selectedFund,
                    isAuthLoading, authInitialized, users, hasInitiallyLoaded,
                    sessionStorage, hasRestoredFromCache, phase,
                    loadingTimeout, intervalId, now, signedOut >>
    /\ DashboardSees(FALSE)

\* updateFund after updateFirebaseFund resolved (lines 427-443, 449-451).
\* The functional update of line 438 gives a new selectedFund object with
\* the same id, so only the effect of line 576 runs again.
FundUpdated(r) ==
    /\ phase = "running"
    /\ r.op = "updateFirebaseFund"
    /\ funds' = [i \in DOMAIN funds |->
                   IF funds[i].id = r.fundId THEN Spread(funds[i], r.fundData)
                   ELSE funds[i]]
    /\ IF r.selectedId = r.fundId /\ selectedFund # NULL
       THEN /\ selectedFund' = Spread(selectedFund, r.fundData)
            /\ isLoading' = TRUE
            /\ inflight' = Settle(r) (+)
                              SetToBag({LoadTransactionsRequest(selectedFund.id)})
       ELSE /\ inflight' = Settle(r)
            /\ isLoading' = FALSE
            /\ UNCHANGED selectedFund
    /\ UNCHANGED << currentUser, transactions, isAuthLoading, authInitialized,
                    users, hasInitiallyLoaded, sessionStorage,
                    hasRestoredFromCache, phase, loadingTimeout, intervalId,
                    now, signedOut >>
    /\ DashboardSees(TRUE)
    /\ Settled(r, "fundUpdated", [returned |-> "true", threw |-> FALSE])

\* updateFund after updateFirebaseFund rejected (lines 444-451).
UpdateFundFailed(r) ==
    /\ phase = "running"
    /\ r.op = "updateFirebaseFund"
    /\ isLoading' = FALSE
    /\ inflight' = Settle(r)
    /\ UNCHANGED << currentUser, funds, transactions, selectedFund,
                    isAuthLoading, authInitialized, users, hasInitiallyLoaded,
                    sessionStorage, hasRestoredFromCache, phase,
                    loadingTimeout, intervalId, now, signedOut >>
    /\ DashboardSees(FALSE)
    /\ Settled(r, "updateFundFailed", [returned |-> "false", threw |-> FALSE])

(***************************************************************************)
(* Transaction mutations: createTransaction and deleteTransactionById,     *)
(* lines 382-415 and 600-619.                                              *)
(***************************************************************************)
\* The transactions consumers pass to createTransaction (no id, no
\* createdAt; this one has no date either), with the splits that
\* calculateTransactionSplits gives.
TransactionInputs ==
    { [fundId |-> "f1", description |-> "Tea", amount |-> 5, paidBy |-> "A",
       splits |-> << [userId |-> "A", amount |-> 5] >>] }

\* transactionWithDate, lines 387-392.
TransactionWithDate(transaction) ==
    [date |-> NumField(transaction, "date", DateNow)] @@ transaction

\* The document createFirebaseTransaction returns: the store assigns the
\* id and createdAt.
CreatedTransaction(transactionWithDate) ==
    [id |-> "t4", createdAt |-> transactionWithDate.date] @@ transactionWithDate

\* createTransaction up to its await (lines 382-393).
CreateTransactionStart(transaction) ==
    /\ phase = "running"
    /\ Room(1)
    /\ isLoading' = TRUE
    /\ inflight' = Issue(Request("createFirebaseTransaction",
           [transaction |-> TransactionWithDate(transaction)]))
    /\ last' = [op |-> "createTransaction", sent |-> TRUE]
    /\ UNCHANGED << currentUser, funds, transactions, selectedFund,
                    isAuthLoading, authInitialized, users, hasInitiallyLoaded,
                    sessionStorage, hasRestoredFromCache, phase,
                    loadingTimeout, intervalId, now, signedOut >>
    /\ DashboardSees(FALSE)

\* A patch that always appends.
PatchCreatedAppended(prev, newTransaction) == Append(prev, newTransaction)

\* The functional update of lines 396-404.
PatchCreated(prev, newTransaction) ==
    IF \E i \in DOMAIN prev : prev[i].id = newTransaction.id
    THEN [i \in DOMAIN prev |->
            IF prev[i].id = newTransaction.id THEN newTransaction ELSE prev[i]]
    ELSE Append(prev, newTransaction)

\* createTransaction after createFirebaseTransaction resolved (lines
\* 393-407, 412-414).
TransactionCreated(r) ==
    LET newTransaction == CreatedTransaction(r.transaction) IN
    /\ phase = "running"
    /\ r.op = "createFirebaseTransaction"
    /\ transactions' = PatchCreated(transactions, newTransaction)
    /\ isLoading' = FALSE
    /\ inflight' = Settle(r)
    /\ UNCHANGED << currentUser, funds, selectedFund, isAuthLoading,
                    authInitialized, users, hasInitiallyLoaded, sessionStorage,
                    hasRestoredFromCache, phase, loadingTimeout, intervalId,
                    now, signedOut >>
    /\ DashboardSees(FALSE)
    /\ Settled(r, "transactionCreated",
               [returned |-> newTransaction.id, threw |-> FALSE,
                created |-> newTransaction])

\* createTransaction after createFirebaseTransaction rejected (lines
\* 408-414).
CreateTransactionFailed(r) ==
    /\ phase = "running"
    /\ r.op = "createFirebaseTransaction"
    /\ isLoading' = FALSE
    /\ inflight' = Settle(r)
    /\ UNCHANGED << currentUser, funds, transactions, selectedFund,
                    isAuthLoading, authInitialized, users, hasInitiallyLoaded,
                    sessionStorage, hasRestoredFromCache, phase,
                    loadingTimeout, intervalId, now, signedOut >>
    /\ DashboardSees(FALSE)
    /\ Settled(r, "createTransactionFailed",
               [returned |-> "undefined", threw |-> FALSE])

\* deleteTransactionById up to its await (lines 600-604).
DeleteTransactionStart(transactionId) ==
    /\ phase = "running"
    /\ Room(1)
    /\ isLoading' = TRUE
    /\ inflight' = Issue(Request("deleteTransaction",
           [transactionId |-> transactionId]))
    /\ last' = [op |-> "deleteTransaction", sent |-> TRUE]
    /\ UNCHANGED << currentUser, funds, transactions, selectedFund,
                    isAuthLoading, authInitialized, users, hasInitiallyLoaded,
                    sessionStorage, hasRestoredFromCache, phase,
                    loadingTimeout, intervalId, now, signedOut >>
    /\ DashboardSees(FALSE)

\* deleteTransactionById after deleteTransaction resolved (lines 604-610,
\* 616-618).
TransactionDeleted(r) ==
    /\ phase = "running"
    /\ r.op = "deleteTransaction"
    /\ transactions' = SelectSeq(transactions, LAMBDA t : t.id # r.transactionId)
    /\ isLoading' = FALSE
    /\ inflight' = Settle(r)
    /\ UNCHANGED << currentUser, funds, selectedFund, isAuthLoading,
                    authInitialized, users, hasInitiallyLoaded, sessionStorage,
                    hasRestoredFromCache, phase, loadingTimeout, intervalId,
                    now, signedOut >>
    /\ DashboardSees(FALSE)
    /\ Settled(r, "transactionDeleted",
               [returned |-> "true", threw |-> FALSE,
                deleted |-> r.transactionId])

\* deleteTransactionById after deleteTransaction rejected (lines 611-618).
DeleteTransactionFailed(r) ==
    /\ phase = "running"
    /\ r.op = "deleteTransaction"
    /\ isLoading' = FALSE
    /\ inflight' = Settle(r)
    /\ UNCHANGED << currentUser, funds, transactions, selectedFund,
                    isAuthLoading, authInitialized, users, hasInitiallyLoaded,
                    sessionStorage, hasRestoredFromCache, phase,
                    loadingTimeout, intervalId, now, signedOut >>
    /\ DashboardSees(FALSE)
    /\ Settled(r, "deleteTransactionFailed",
               [returned |-> "false", threw |-> FALSE])

(***************************************************************************)
(* calculateBalances, lines 455-475.                                       *)
(***************************************************************************)
\* The inner loop body, lines 464-467: balances is the insertion-ordered
\* list of the object's entries; an absent entry and an entry of 0 are
\* both (re)set to 0 before the amount is added.
AddSplit(balances, split) ==
    IF \E i \in DOMAIN balances : balances[i].userId = split.userId
    THEN [i \in DOMAIN balances |->
            IF balances[i].userId = split.userId
            THEN [userId |-> split.userId,
                  amount |-> (IF balances[i].amount = 0 THEN 0
                              ELSE balances[i].amount) + split.amount]
            ELSE balances[i]]
    ELSE Append(balances, [userId |-> split.userId, amount |-> 0 + split.amount])

RECURSIVE AddSplits(_, _)
AddSplits(balances, splits) ==
    IF splits = <<>> THEN balances
    ELSE AddSplits(AddSplit(balances, Head(splits)), Tail(splits))

RECURSIVE AddTransactions(_, _)
AddTransactions(balances, fundTransactions) ==
    IF fundTransactions = <<>> THEN balances
    ELSE AddTransactions(AddSplits(balances, Head(fundTransactions).splits),
                         Tail(fundTransactions))

\* A computation over the transactions of every fund.
calculateBalancesAllFunds(fundId) ==
    AddTransactions(<<>>, transactions)

\* calculateBalances, lines 455-475
calculateBalances(fundId) ==
    AddTransactions(<<>>, SelectSeq(transactions, LAMBDA t : t.fundId = fundId))

\* A consumer calls calculateBalances(fundId) during a render.
CalculateBalances(fundId) ==
    /\ phase = "running"
    /\ last' = [op |-> "calculateBalances", fundId |-> fundId,
                result |-> calculateBalances(fundId)]
    /\ UNCHANGED << currentUser, funds, transactions, selectedFund,
                    isAuthLoading, authInitialized, isLoading, users,
                    hasInitiallyLoaded, sessionStorage, hasRestoredFromCache,
                    phase, loadingTimeout, intervalId, now, inflight,
                    signedOut >>
    /\ DashboardSees(FALSE)

\* fetchFundById up to its await (lines 622-626).
FetchFundStart(fundId) ==
    /\ phase = "running"
    /\ Room(1)
    /\ Len(funds) < MaxFunds
    /\ isLoading' = TRUE
    /\ inflight' = Issue(Request("getFundById",
                                 [fundId |-> fundId, funds |-> funds]))
    /\ last' = [op |-> "fetchFundById"]
    /\ UNCHANGED << currentUser, funds, transactions, selectedFund,
                    isAuthLoading, authInitialized, users, hasInitiallyLoaded,
                    sessionStorage, hasRestoredFromCache, phase,
                    loadingTimeout, intervalId, now, signedOut >>
    /\ DashboardSees(FALSE)

\* fetchFundById after getFundById resolved with fundData, a fund or null
\* (lines 626-639, 644-646); `funds` of line 631 is the closure's.
FundFetched(r, fundData) ==
    /\ phase = "running"
    /\ r.op = "getFundById"
    /\ funds' = IF fundData # NULL /\ r.fundId \notin SeqIds(r.funds)
                THEN Append(funds, fundData)
                ELSE funds
    /\ isLoading' = FALSE
    /\ inflight' = Settle(r)
    /\ UNCHANGED << currentUser, transactions, selectedFund, isAuthLoading,
                    authInitialized, users, hasInitiallyLoaded, sessionStorage,
                    hasRestoredFromCache, phase, loadingTimeout, intervalId,
                    now, signedOut >>
    /\ DashboardSees(funds' # funds)
    /\ Settled0(r, "fundFetched")

\* fetchFundById after getFundById rejected (lines 640-646).
FetchFundFailed(r) ==
    /\ phase = "running"
    /\ r.op = "getFundById"
    /\ isLoading' = FALSE
    /\ inflight' = Settle(r)
    /\ UNCHANGED << currentUser, funds, transactions, selectedFund,
                    isAuthLoading, authInitialized, users, hasInitiallyLoaded,
                    sessionStorage, hasRestoredFromCache, phase,
                    loadingTimeout, intervalId, now, signedOut >>
    /\ DashboardSees(FALSE)
    /\ Settled0(r, "fetchFundFailed")

(***************************************************************************)
(* User cache: loadUsers and refreshCurrentUser.                           *)
(***************************************************************************)
\* [...new Set(userIds)]: first occurrences, in order.
RECURSIVE Dedupe(_)
Dedupe(s) ==
    IF s = <<>> THEN <<>>
    ELSE LET init == Dedupe(SubSeq(s, 1, Len(s) - 1)) IN
         IF \E i \in DOMAIN init : init[i] = s[Len(s)]
         THEN init ELSE Append(init, s[Len(s)])

\* A filter that lets ids through that are already loaded.
WantedUserIdUncached(id) ==
    /\ id # ""
    /\ id # IdOf(currentUser)

\* The filter predicate of loadUsers, lines 121-125: currentUser and users
\* are those of the render whose loadUsers is called.
WantedUserId(id) ==
    /\ id # ""
    /\ id # IdOf(currentUser)
    /\ id \notin DOMAIN users

\* Array.prototype.filter with that predicate
RECURSIVE FilterWanted(_)
FilterWanted(s) ==
    IF s = <<>> THEN <<>>
    ELSE IF WantedUserId(Head(s)) THEN <<Head(s)>> \o FilterWanted(Tail(s))
         ELSE FilterWanted(Tail(s))

\* uniqueIds of loadUsers
UniqueUserIds(userIds) == FilterWanted(Dedupe(userIds))

\* The id lists consumers pass to loadUsers.
LoadUsersInputs == { <<>>, <<"B">>, <<"A", "B", "A">>, <<"", "B">> }

\* Results of getUsersByIds(ids): a profile for each id the store knows.
UserMaps(ids) ==
    LET S == {ids[i] : i \in DOMAIN ids}
        All == UNION {RemoteProfiles(id) : id \in S}
    IN  { m \in UNION {[T -> All] : T \in SUBSET S} :
            \A id \in DOMAIN m : m[id].id = id }

\* loadUsers up to its await (lines 117-134).
LoadUsersCall(userIds) ==
    LET uniqueIds == UniqueUserIds(userIds) IN
    /\ phase = "running"
    /\ Room(1)
    /\ IF Len(userIds) = 0 \/ Len(uniqueIds) = 0
       THEN UNCHANGED << isLoading, inflight >>
       ELSE /\ isLoading' = TRUE
            /\ inflight' = Issue(Request("getUsersByIds",
                   [ids |-> uniqueIds, userIds |-> userIds,
                    caller |-> "consumer"]))
    /\ last' = [op |-> "loadUsers", sent |-> Len(uniqueIds) # 0,
                userIds |-> userIds, ids |-> uniqueIds]
    /\ UNCHANGED << currentUser, funds, transactions, selectedFund,
                    isAuthLoading, authInitialized, users, hasInitiallyLoaded,
                    sessionStorage, hasRestoredFromCache, phase,
                    loadingTimeout, intervalId, now, signedOut >>
    /\ DashboardSees(FALSE)

\* An update that keeps only the profiles just delivered.
MergeUsersReplaced(prev, usersMap) == usersMap

\* The functional update of lines 137-144.
MergeUsers(prev, usersMap) ==
    [ id \in DOMAIN prev \cup DOMAIN usersMap |->
        IF id \in DOMAIN usersMap THEN usersMap[id] ELSE prev[id] ]

\* loadUsers after getUsersByIds resolved (lines 134-144, 147-149).
UsersLoaded(r, usersMap) ==
    /\ phase = "running"
    /\ r.op = "getUsersByIds"
    /\ users' = MergeUsers(users, usersMap)
    /\ isLoading' = FALSE
    /\ inflight' = Settle(r)
    /\ UNCHANGED << currentUser, funds, transactions, selectedFund,
                    isAuthLoading, authInitialized, hasInitiallyLoaded,
                    sessionStorage, hasRestoredFromCache, phase,
                    loadingTimeout, intervalId, now, signedOut >>
    /\ DashboardAfter(TRUE, r.caller)
    /\ Settled(r, "usersLoaded",
               [ids |-> r.ids, userIds |-> r.userIds,
                delivered |-> DOMAIN usersMap])

\* loadUsers after getUsersByIds rejected (lines 145-149).
LoadUsersFailed(r) ==
    /\ phase = "running"
    /\ r.op = "getUsersByIds"
    /\ isLoading' = FALSE
    /\ inflight' = Settle(r)
    /\ UNCHANGED << currentUser, funds, transactions, selectedFund,
                    isAuthLoading, authInitialized, users, hasInitiallyLoaded,
                    sessionStorage, hasRestoredFromCache, phase,
                    loadingTimeout, intervalId, now, signedOut >>
    /\ DashboardAfter(FALSE, r.caller)
    /\ Settled(r, "loadUsersFailed", [ids |-> r.ids, userIds |-> r.userIds])

\* idStr.substring(0, 4), line 178
ShortId(idStr) ==
    IF Len(idStr) <= 4 THEN idStr ELSE SubSeq(idStr, 1, 4)

\* A lookup that prefers the cached entry to the current user.
getUserByIdCacheFirst(id) ==
    IF id \in {JsNull, ""}
    THEN [id |-> "unknown", displayName |-> "Unknown User", email |-> "",
          photoURL |-> "", bankAccount |-> JsNull]
    ELSE IF id \in DOMAIN users
    THEN users[id]
    ELSE IF currentUser # NULL /\ currentUser.id = id
    THEN currentUser
    ELSE [id |-> id, displayName |-> "User " \o ShortId(id), email |-> "",
          photoURL |-> "", bankAccount |-> JsNull]

\* getUserById, lines 153-186
getUserById(id) ==
    IF id \in {JsNull, ""}
    THEN [id |-> "unknown", displayName |-> "Unknown User", email |-> "",
          photoURL |-> "", bankAccount |-> JsNull]
    ELSE IF currentUser # NULL /\ currentUser.id = id
    THEN currentUser
    ELSE IF id \in DOMAIN users
    THEN users[id]
    ELSE [id |-> id, displayName |-> "User " \o ShortId(id), email |-> "",
          photoURL |-> "", bankAccount |-> JsNull]

\* The ids consumers look up: a member that may be cached, the empty id of
\* a malformed document, and an id no profile is loaded for.
LookupIds == {"A", "B", "", "traveller"}

\* A consumer calls getUserById(id) during a render (lines 153-186).
GetUserById(id) ==
    /\ phase = "running"
    /\ last' = [op |-> "getUserById", id |-> id, result |-> getUserById(id)]
    /\ UNCHANGED << currentUser, funds, transactions, selectedFund,
                    isAuthLoading, authInitialized, isLoading, users,
                    hasInitiallyLoaded, sessionStorage, hasRestoredFromCache,
                    phase, loadingTimeout, intervalId, now, inflight,
                    signedOut >>
    /\ DashboardSees(FALSE)

(***************************************************************************)
(* The Dashboard page, Dashboard.tsx lines 13-46; it is rendered by        *)
(* ProtectedRoute (lines 38-56) once a user is authenticated.              *)
(***************************************************************************)
\* ProtectedRoute renders its Outlet.
RouteOpen == authInitialized /\ ~isAuthLoading /\ currentUser # NULL

\* The page mounts: its effect runs after the first render.
DashboardMount ==
    /\ phase = "running"
    /\ ~dashboard.mounted
    /\ RouteOpen
    /\ dashboard' = [mounted |-> TRUE, usersLoadingForFunds |-> FALSE,
                     effectDue |-> TRUE]
    /\ last' = [op |-> "dashboardMount"]
    /\ UNCHANGED << currentUser, funds, transactions, selectedFund,
                    isAuthLoading, authInitialized, isLoading, users,
                    hasInitiallyLoaded, sessionStorage, hasRestoredFromCache,
                    phase, loadingTimeout, intervalId, now, inflight,
                    signedOut >>

\* ProtectedRoute shows the skeleton or the login page instead.
DashboardUnmount ==
    /\ phase = "running"
    /\ dashboard.mounted
    /\ ~RouteOpen
    /\ dashboard' = NoDashboard
    /\ last' = [op |-> "dashboardUnmount"]
    /\ UNCHANGED << currentUser, funds, transactions, selectedFund,
                    isAuthLoading, authInitialized, isLoading, users,
                    hasInitiallyLoaded, sessionStorage, hasRestoredFromCache,
                    phase, loadingTimeout, intervalId, now, inflight,
                    signedOut >>

\* allUserIds of lines 28-36: the member ids of all funds, each once.
RECURSIVE MemberIds(_)
MemberIds(fs) ==
    IF fs = <<>> THEN <<>>
    ELSE Dedupe(MemberIds(SubSeq(fs, 1, Len(fs) - 1))
                \o SelectSeq(fs[Len(fs)].members, LAMBDA id : id # ""))

\* The effect of Dashboard.tsx lines 20-46 with the loadUsers of the same
\* render; a loadUsers that returns at once settles at once and the finally
\* of line 42 resets usersLoadingForFunds.
DashboardEffect ==
    LET userIdsArray == MemberIds(funds)
        uniqueIds    == UniqueUserIds(userIdsArray)
        done(loading) == [mounted |-> TRUE, usersLoadingForFunds |-> loading,
                          effectDue |-> FALSE]
    IN
    /\ phase = "running"
    /\ dashboard.mounted
    /\ dashboard.effectDue
    /\ IF ~hasInitiallyLoaded \/ Len(funds) = 0
       THEN /\ dashboard' = done(FALSE)
            /\ UNCHANGED << isLoading, inflight >>
       ELSE IF Len(userIdsArray) = 0
       THEN /\ dashboard' = done(dashboard.usersLoadingForFunds)
            /\ UNCHANGED << isLoading, inflight >>
       ELSE IF Len(uniqueIds) = 0
       THEN /\ dashboard' = done(FALSE)
            /\ UNCHANGED << isLoading, inflight >>
       ELSE /\ Room(1)
            /\ dashboard' = done(TRUE)
            /\ isLoading' = TRUE
            /\ inflight' = Issue(Request("getUsersByIds",
                   [ids |-> uniqueIds, userIds |-> userIdsArray,
                    caller |-> "Dashboard"]))
    /\ last' = [op |-> "dashboardEffect",
                sent |-> /\ hasInitiallyLoaded
                         /\ Len(uniqueIds) # 0]
    /\ UNCHANGED << currentUser, funds, transactions, selectedFund,
                    isAuthLoading, authInitialized, users, hasInitiallyLoaded,
                    sessionStorage, hasRestoredFromCache, phase,
                    loadingTimeout, intervalId, now, signedOut >>

\* refreshCurrentUser up to its await (lines 189-194).
RefreshCurrentUserStart ==
    /\ phase = "running"
    /\ Room(1)
    /\ currentUser # NULL
    /\ currentUser.id # ""
    /\ inflight' = Issue(Request("refreshCurrentUser", [id |-> currentUser.id]))
    /\ last' = [op |-> "refreshCurrentUser"]
    /\ UNCHANGED << currentUser, funds, transactions, selectedFund,
                    isAuthLoading, authInitialized, isLoading, users,
                    hasInitiallyLoaded, sessionStorage, hasRestoredFromCache,
                    phase, loadingTimeout, intervalId, now, signedOut >>
    /\ DashboardSees(FALSE)

\* refreshCurrentUser after getUsersByIds resolved (lines 194-201).
CurrentUserRefreshed(r, refreshedUsers) ==
    /\ phase = "running"
    /\ r.op = "refreshCurrentUser"
    /\ IF r.id \in DOMAIN refreshedUsers
       THEN /\ currentUser' = refreshedUsers[r.id]
            /\ sessionStorage' = << JsonStringify(refreshedUsers[r.id]) >>
       ELSE UNCHANGED << currentUser, sessionStorage >>
    /\ inflight' = Settle(r)
    /\ UNCHANGED << funds, transactions, selectedFund, isAuthLoading,
                    authInitialized, isLoading, users, hasInitiallyLoaded,
                    hasRestoredFromCache, phase, loadingTimeout, intervalId,
                    now, signedOut >>
    /\ DashboardSees(FALSE)
    /\ Settled(r, "currentUserRefreshed", [id |-> r.id])

\* refreshCurrentUser after getUsersByIds rejected (lines 202-204).
RefreshCurrentUserFailed(r) ==
    /\ phase = "running"
    /\ r.op = "refreshCurrentUser"
    /\ inflight' = Settle(r)
    /\ UNCHANGED << currentUser, funds, transactions, selectedFund,
                    isAuthLoading, authInitialized, isLoading, users,
                    hasInitiallyLoaded, sessionStorage, hasRestoredFromCache,
                    phase, loadingTimeout, intervalId, now, signedOut >>
    /\ DashboardSees(FALSE)
    /\ Settled(r, "refreshCurrentUserFailed", [id |-> r.id])

(***************************************************************************)
(* Specifications.                                                         *)
(***************************************************************************)
LocalFunds == {funds[i] : i \in DOMAIN funds}

Next ==
    \/ Initialize
    \/ Tick
    \/ LoadingTimeoutFires
    \/ Teardown
    \/ \E firebaseUser \in FirebaseUsers : AuthSignedIn(firebaseUser)
    \/ AuthSignedOut
    \/ \E r \in Pending :
          \E fullUser \in RemoteProfiles(
                IF r.op = "syncUserWithFirestore" THEN r.firebaseUser.uid ELSE "A") :
             SyncResolved(r, fullUser)
    \/ \E r \in Pending : SyncRejected(r)
    \/ LoginStart
    \/ \E r \in Pending, ok \in BOOLEAN : LoginSettled(r, ok)
    \/ LogoutStart
    \/ \E r \in Pending, ok \in BOOLEAN : LogoutSettled(r, ok)
    \/ \E fund \in LocalFunds \cup {NULL} : SelectFund(fund)
    \/ IntervalTick
    \/ RefreshInterval
    \/ \E fundId \in FundIds : DeleteFundStart(fundId)
    \/ \E r \in Pending : FundDeleted(r)
    \/ \E r \in Pending : DeleteFundFailed(r)
    \/ \E fundId \in FundIds, fundData \in FundUpdates :
          UpdateFundStart(fundId, fundData)
    \/ \E r \in Pending : FundUpdated(r)
    \/ \E r \in Pending : UpdateFundFailed(r)
    \/ \E transaction \in TransactionInputs : CreateTransactionStart(transaction)
    \/ \E r \in Pending : TransactionCreated(r)
    \/ \E r \in Pending : CreateTransactionFailed(r)
    \/ \E transactionId \in {"t1", "t4"} : DeleteTransactionStart(transactionId)
    \/ \E r \in Pending : TransactionDeleted(r)
    \/ \E r \in Pending : DeleteTransactionFailed(r)
    \/ \E r \in Pending :
          \E fundTransactions \in TransactionResponses(
                IF r.op = "getFundTransactions" THEN r.fundId ELSE "f1") :
             TransactionsLoaded(r, fundTransactions)
    \/ \E r \in Pending : TransactionsFailed(r)
    \/ LoadUserFundsCall
    \/ LoadUserFundsNoId
    \/ \E r \in Pending, userFunds \in FundResponses : FundsLoaded(r, userFunds)
    \/ \E r \in Pending : FundsFailed(r)
    \/ CreateFundStart
    \/ \E r \in Pending : FundCreated(r)
    \/ \E r \in Pending : CreateFundFailed(r)
    \/ \E fundId \in FundIds : FetchFundStart(fundId)
    \/ \E r \in Pending :
          \E fundData \in {NULL} \cup {f \in RemoteFunds :
                r.op = "getFundById" /\ f.id = r.fundId} :
             FundFetched(r, fundData)
    \/ \E r \in Pending : FetchFundFailed(r)
    \/ \E userIds \in LoadUsersInputs : LoadUsersCall(userIds)
    \/ \E id \in LookupIds : GetUserById(id)
    \/ DashboardMount
    \/ DashboardUnmount
    \/ DashboardEffect
    \/ \E fundId \in FundIds : CalculateBalances(fundId)
    \/ \E r \in Pending :
          \E usersMap \in UserMaps(
                IF r.op = "getUsersByIds" THEN r.ids ELSE <<>>) :
             UsersLoaded(r, usersMap)
    \/ \E r \in Pending : LoadUsersFailed(r)
    \/ RefreshCurrentUserStart
    \/ \E r \in Pending :
          \E refreshedUsers \in UserMaps(
                IF r.op = "refreshCurrentUser" THEN <<r.id>> ELSE <<>>) :
             CurrentUserRefreshed(r, refreshedUsers)
    \/ \E r \in Pending : RefreshCurrentUserFailed(r)

Spec == Init /\ [][Next]_vars

(***************************************************************************)
(* The full next-state relation is too large to enumerate in one run.      *)
(* Each specification below takes Init and a part of Next: the handlers a  *)
(* group of claims is about, with the remote responses they can meet.      *)
(* A behaviour of any of them is a behaviour of Spec.                      *)
(***************************************************************************)
\* Results of getUserFunds of at most one fund.
ShortFundResponses == {s \in FundResponses : Len(s) <= 1}
\* Results of getUserFunds for a user whose only fund can be "Trip".
TripFundResponses ==
    {s \in ShortFundResponses : \A i \in DOMAIN s : s[i].name = "Trip"}

\* The session manager: the mount effect, the auth events, the loading
\* timeout, login and logout, and the fund loads the effect starts.
SessionNext ==
    \/ Initialize
    \/ Tick
    \/ LoadingTimeoutFires
    \/ Teardown
    \/ \E firebaseUser \in FirebaseUsers : AuthSignedIn(firebaseUser)
    \/ AuthSignedOut
    \/ \E r \in Pending :
          \E fullUser \in {u \in RemoteProfiles(
                IF r.op = "syncUserWithFirestore" THEN r.firebaseUser.uid ELSE "A") :
                u.bankAccount # JsNull} :
             SyncResolved(r, fullUser)
    \/ \E r \in Pending : SyncRejected(r)
    \/ LoginStart
    \/ \E r \in Pending, ok \in BOOLEAN : LoginSettled(r, ok)
    \/ LogoutStart
    \/ \E r \in Pending, ok \in BOOLEAN : LogoutSettled(r, ok)
    \/ \E r \in Pending, userFunds \in TripFundResponses :
          FundsLoaded(r, userFunds)
    \/ \E r \in Pending : FundsFailed(r)

SessionSpec == Init /\ [][SessionNext]_vars

\* The mount effect alone: the auth events, the loading timeout and the
\* fund loads the effect starts.
TimerNext ==
    \/ Initialize
    \/ Tick
    \/ LoadingTimeoutFires
    \/ Teardown
    \/ \E firebaseUser \in FirebaseUsers : AuthSignedIn(firebaseUser)
    \/ AuthSignedOut
    \/ \E r \in Pending :
          \E fullUser \in {u \in RemoteProfiles(
                IF r.op = "syncUserWithFirestore" THEN r.firebaseUser.uid ELSE "A") :
                u.bankAccount # JsNull} :
             SyncResolved(r, fullUser)
    \/ \E r \in Pending : SyncRejected(r)
    \/ \E r \in Pending, userFunds \in TripFundResponses :
          FundsLoaded(r, userFunds)
    \/ \E r \in Pending : FundsFailed(r)

\* Timers fire: time passes, and a due timeout runs its callback.
FairTimerSpec ==
    /\ Init
    /\ [][TimerNext]_vars
    /\ WF_vars(Tick)
    /\ WF_vars(LoadingTimeoutFires)

(***************************************************************************)
(* Claims about the session manager.                                       *)
(***************************************************************************)
\* Pending loadUserFunds calls for userId.
FundLoadsFor(userId) ==
    LET S == {r \in Pending : r.op = "getUserFunds" /\ r.userId = userId}
        RECURSIVE Sum(_)
        Sum(T) == IF T = {} THEN 0
                  ELSE LET x == CHOOSE y \in T : TRUE
                       IN inflight[x] + Sum(T \ {x})
    IN  Sum(S)

\* C3: when the sync of an 'authenticated' event for R resolves and R's id
\* differed from the identity held when the event arrived, currentUser is
\* the synced profile of R, the snapshot holds it, and this step issued a
\* fund load for R's id.
C3_FullSyncReplacesAndReloads ==
    [][ \A uid \in UserIds :
          ( /\ last'.op = "syncResolved"
            /\ last'.firebaseUser.uid = uid
            /\ last'.held # uid )
          => /\ currentUser' \in RemoteProfiles(uid)
             /\ sessionStorage' # <<>>
             /\ JsonParse(sessionStorage'[1]) = currentUser'
             /\ FundLoadsFor(uid)' > FundLoadsFor(uid) ]_vars

\* C4: when the identity restored from the snapshot already has R's id, the
\* handling of an 'authenticated' event for R replaces neither currentUser
\* nor the snapshot.
C4_CachedIdentityOnlyVerified ==
    [][ ( /\ last'.op \in {"syncResolved", "syncRejected"}
          /\ hasRestoredFromCache
          /\ last'.held = last'.firebaseUser.uid )
        => /\ currentUser' = currentUser
           /\ sessionStorage' = sessionStorage ]_vars

\* C5: when the loading timeout fires and no auth event was delivered
\* before, authInitialized becomes true, isAuthLoading false, and
\* currentUser stays as it was; and a mounted session that is not torn down
\* eventually has authInitialized = true.
C5_TimeoutForcesInitialized ==
    /\ [][ (last'.op = "timeout" /\ ~authInitialized)
           => /\ authInitialized'
              /\ ~isAuthLoading'
              /\ currentUser' = currentUser ]_vars
    /\ (phase = "running") ~> (authInitialized \/ phase = "torndown")

C5_Witness ==
    /\ last.op = "timeout"
    /\ last.first
    /\ currentUser # NULL
    /\ authInitialized

\* C6: once an auth event has been delivered (authInitialized is true), the
\* timeout callback writes neither isAuthLoading nor authInitialized.
C6_TimeoutCancelledByEvent ==
    [][ (last'.op = "timeout" /\ authInitialized)
        => /\ isAuthLoading' = isAuthLoading
           /\ authInitialized' = authInitialized ]_vars

\* C7: authInitialized starts false and never goes back from true to false.
C7_AuthInitializedMonotonic ==
    /\ ~authInitialized
    /\ [][authInitialized => authInitialized']_vars

C7_Witness ==
    /\ authInitialized
    /\ last.op = "signedOut"
    /\ loadingTimeout = "fired"

\* C8: after a failed profile sync currentUser is the minimal identity of
\* the event (displayName "User", email and photoURL "" when the event has
\* none), the snapshot holds that identity, isAuthLoading is false and the
\* handler threw nothing.
C8_SyncFailureFallsBack ==
    last.op = "syncRejected" =>
        LET fu == last.firebaseUser IN
        /\ currentUser =
              [ id |-> fu.uid,
                displayName |-> IF fu.displayName \in {JsNull, ""}
                                THEN "User" ELSE fu.displayName,
                email |-> IF fu.email = JsNull THEN "" ELSE fu.email,
                photoURL |-> IF fu.photoURL = JsNull THEN "" ELSE fu.photoURL,
                bankAccount |-> JsNull ]
        /\ sessionStorage # <<>>
        /\ JsonParse(sessionStorage[1]) = currentUser
        /\ ~isAuthLoading
        /\ ~last.threw

C8_Witness ==
    /\ last.op = "syncRejected"
    /\ last.firebaseUser.displayName = JsNull
    /\ currentUser # NULL
    /\ currentUser.displayName = "User"

(***************************************************************************)
(* Claims about sign-out, login and logout.                                *)
(***************************************************************************)
\* One signed-in user with funds, a selection, transactions, cached users
\* and profile refreshes; sign-out, login and logout.
SignOutNext ==
    \/ Initialize
    \/ \E firebaseUser \in {fu \in FirebaseUsers : fu.displayName = "Ann"} :
          AuthSignedIn(firebaseUser)
    \/ AuthSignedOut
    \/ \E r \in Pending :
          \E fullUser \in {u \in RemoteProfiles(
                IF r.op = "syncUserWithFirestore" THEN r.firebaseUser.uid ELSE "A") :
                u.bankAccount # JsNull} :
             SyncResolved(r, fullUser)
    \/ \E r \in Pending, userFunds \in TripFundResponses :
          FundsLoaded(r, userFunds)
    \/ \E fund \in LocalFunds \cup {NULL} : SelectFund(fund)
    \/ \E r \in Pending :
          \E fundTransactions \in
                {s \in TransactionResponses(
                    IF r.op = "getFundTransactions" THEN r.fundId ELSE "f1") :
                    Len(s) <= 1} :
             TransactionsLoaded(r, fundTransactions)
    \/ \E userIds \in {<<"", "B">>} : LoadUsersCall(userIds)
    \/ \E r \in Pending :
          \E usersMap \in UserMaps(
                IF r.op = "getUsersByIds" THEN r.ids ELSE <<>>) :
             UsersLoaded(r, usersMap)
    \/ RefreshCurrentUserStart
    \/ \E r \in Pending :
          \E refreshedUsers \in UserMaps(
                IF r.op = "refreshCurrentUser" THEN <<r.id>> ELSE <<>>) :
             CurrentUserRefreshed(r, refreshedUsers)

SignOutSpec == Init /\ [][SignOutNext]_vars

\* C1: right after an 'unauthenticated' event is handled, currentUser is
\* null, funds, transactions and the users cache are empty and the snapshot
\* is removed.
C1_SignOutClears ==
    last.op = "signedOut" =>
        /\ currentUser = NULL
        /\ funds = <<>>
        /\ transactions = <<>>
        /\ users = NoUsers
        /\ sessionStorage = <<>>

C1_Witness == last.op = "signedOut" /\ last.populated

\* C2: while signed out, the response of a call that was pending when the
\* sign-out was handled changes none of currentUser, funds, transactions,
\* users and the snapshot.
C2_LateResponsesDiscarded ==
    [][ ( /\ signedOut
          /\ "late" \in DOMAIN last'
          /\ last'.late )
        => Core' = Core ]_vars

\* One signed-in user with funds and a selection; login and logout.
LoginNext ==
    \/ Initialize
    \/ \E firebaseUser \in {fu \in FirebaseUsers : fu.displayName = "Ann"} :
          AuthSignedIn(firebaseUser)
    \/ \E r \in Pending :
          \E fullUser \in {u \in RemoteProfiles(
                IF r.op = "syncUserWithFirestore" THEN r.firebaseUser.uid ELSE "A") :
                u.bankAccount # JsNull} :
             SyncResolved(r, fullUser)
    \/ \E r \in Pending, userFunds \in ShortFundResponses :
          FundsLoaded(r, userFunds)
    \/ \E fund \in LocalFunds \cup {NULL} : SelectFund(fund)
    \/ \E r \in Pending :
          \E fundTransactions \in
                {s \in TransactionResponses(
                    IF r.op = "getFundTransactions" THEN r.fundId ELSE "f1") :
                    Len(s) <= 1} :
             TransactionsLoaded(r, fundTransactions)
    \/ LoginStart
    \/ \E r \in Pending, ok \in BOOLEAN : LoginSettled(r, ok)
    \/ LogoutStart
    \/ \E r \in Pending, ok \in BOOLEAN : LogoutSettled(r, ok)

LoginSpec == Init /\ [][LoginNext]_vars

\* C9: login and logout set isAuthLoading when called and clear it when the
\* provider call settles, a failure is thrown to the caller, and a failed
\* logout leaves selectedFund as it was.
C9_LoginLogoutLoadingFlag ==
    [][ /\ last'.op \in {"login", "logout"} => isAuthLoading'
        /\ last'.op \in {"loginSettled", "logoutSettled"} =>
              /\ ~isAuthLoading'
              /\ ~last'.ok => last'.threw
        /\ (last'.op = "logoutSettled" /\ ~last'.ok) =>
              selectedFund' = selectedFund ]_vars

C9_Witness ==
    /\ last.op = "logoutSettled"
    /\ ~last.ok
    /\ last.threw
    /\ selectedFund # NULL
    /\ ~isAuthLoading

(***************************************************************************)
(* Claims about the fund store.                                            *)
(***************************************************************************)
\* One signed-in user; fund loads, creations and fetches by id.
FundNext ==
    \/ Initialize
    \/ \E firebaseUser \in {fu \in FirebaseUsers : fu.displayName = "Ann"} :
          AuthSignedIn(firebaseUser)
    \/ \E r \in Pending :
          \E fullUser \in {u \in RemoteProfiles(
                IF r.op = "syncUserWithFirestore" THEN r.firebaseUser.uid ELSE "A") :
                u.bankAccount # JsNull} :
             SyncResolved(r, fullUser)
    \/ LoadUserFundsCall
    \/ \E r \in Pending, userFunds \in FundResponses : FundsLoaded(r, userFunds)
    \/ \E r \in Pending : FundsFailed(r)
    \/ CreateFundStart
    \/ \E r \in Pending : FundCreated(r)
    \/ \E r \in Pending : CreateFundFailed(r)
    \/ \E fundId \in FundIds : FetchFundStart(fundId)
    \/ \E r \in Pending :
          \E fundData \in {NULL} \cup {f \in RemoteFunds :
                r.op = "getFundById" /\ f.id = r.fundId} :
             FundFetched(r, fundData)
    \/ \E r \in Pending : FetchFundFailed(r)
    \/ \E r \in Pending :
          \E fundTransactions \in
                {s \in TransactionResponses(
                    IF r.op = "getFundTransactions" THEN r.fundId ELSE "f1") :
                    Len(s) <= 1} :
             TransactionsLoaded(r, fundTransactions)

FundSpec == Init /\ [][FundNext]_vars

\* C10: when loadUserFunds applies its result, every fund id that was in
\* the local collection is still in it.
C10_FundLoadIsAdditive ==
    [][ last'.op = "fundsLoaded" => SeqIds(funds) \subseteq SeqIds(funds') ]_vars

\* One signed-in user and the calls of loadUserFunds.
LoadNext ==
    \/ Initialize
    \/ \E firebaseUser \in {fu \in FirebaseUsers : fu.displayName = "Ann"} :
          AuthSignedIn(firebaseUser)
    \/ \E r \in Pending :
          \E fullUser \in {u \in RemoteProfiles(
                IF r.op = "syncUserWithFirestore" THEN r.firebaseUser.uid ELSE "A") :
                u.bankAccount # JsNull} :
             SyncResolved(r, fullUser)
    \/ LoadUserFundsCall
    \/ LoadUserFundsNoId
    \/ \E r \in Pending, userFunds \in FundResponses : FundsLoaded(r, userFunds)
    \/ \E r \in Pending : FundsFailed(r)

LoadSpec == Init /\ [][LoadNext]_vars

\* C11: a loadUserFunds call that reaches the remote fetch ends with
\* hasInitiallyLoaded true, on success and on failure, and a failed fetch
\* leaves funds unchanged.
C11_FetchedLoadMarksLoaded ==
    [][ /\ last'.op \in {"fundsLoaded", "fundsFailed"} => hasInitiallyLoaded'
        /\ last'.op = "fundsFailed" => funds' = funds ]_vars

C11_Witness ==
    /\ last.op = "fundsFailed"
    /\ hasInitiallyLoaded
    /\ funds # <<>>

\* C11 as stated: every call of loadUserFunds, whatever its argument, ends
\* with hasInitiallyLoaded true.
C11_EveryLoadMarksLoaded ==
    [][ last'.op \in {"fundsLoaded", "fundsFailed", "loadUserFundsNoId"}
        => hasInitiallyLoaded' ]_vars

(***************************************************************************)
(* Claims about the transactions of the selected fund.                     *)
(***************************************************************************)
\* One signed-in user with one fund that is selected, and the loads of its
\* transactions.
TransactionNext ==
    \/ Initialize
    \/ \E firebaseUser \in {fu \in FirebaseUsers : fu.displayName = "Ann"} :
          AuthSignedIn(firebaseUser)
    \/ \E r \in Pending :
          \E fullUser \in {u \in RemoteProfiles(
                IF r.op = "syncUserWithFirestore" THEN r.firebaseUser.uid ELSE "A") :
                u.bankAccount # JsNull} :
             SyncResolved(r, fullUser)
    \/ \E r \in Pending, userFunds \in TripFundResponses :
          FundsLoaded(r, userFunds)
    \/ \E fund \in LocalFunds \cup {NULL} : SelectFund(fund)
    \/ \E r \in Pending :
          \E fundTransactions \in TransactionResponses(
                IF r.op = "getFundTransactions" THEN r.fundId ELSE "f1") :
             TransactionsLoaded(r, fundTransactions)
    \/ \E r \in Pending : TransactionsFailed(r)

TransactionSpec == Init /\ [][TransactionNext]_vars

\* The transactions of s, each as often as it occurs.
SeqBag(s) == [ x \in {s[i] : i \in DOMAIN s} |->
                 Cardinality({i \in DOMAIN s : s[i] = x}) ]

\* C12: a successful load leaves exactly the normalised transactions of the
\* response (none for an empty response) and nothing held before; a failed
\* load leaves the collection as it was.
C12_LoadReplacesTransactions ==
    [][ /\ last'.op = "transactionsLoaded" =>
              /\ Len(transactions') = Len(last'.response)
              /\ SeqBag(transactions') =
                    SeqBag([i \in DOMAIN last'.response |->
                              ValidTransaction(last'.response[i], last'.fundId)])
        /\ last'.op = "transactionsFailed" => transactions' = transactions ]_vars

C12_Witness ==
    /\ last.op = "transactionsLoaded"
    /\ last.held > 0
    /\ last.response = <<>>
    /\ transactions = <<>>

\* C13: after a successful load the collection is in descending order of
\* date, and transactions of equal date are in descending order of
\* createdAt.
C13_SortedByDateThenCreatedAt ==
    [][ last'.op = "transactionsLoaded" =>
          \A i, j \in DOMAIN transactions' :
             i < j =>
                \/ transactions'[i].date > transactions'[j].date
                \/ /\ transactions'[i].date = transactions'[j].date
                   /\ transactions'[i].createdAt >= transactions'[j].createdAt
      ]_vars

(***************************************************************************)
(* Claims about the periodic refresh of the selected fund.                 *)
(***************************************************************************)
\* One signed-in user selecting among their funds, creating a fund, logging
\* out and unmounting, with the refresh interval running.
SelectionNext ==
    \/ Initialize
    \/ Teardown
    \/ \E firebaseUser \in {fu \in FirebaseUsers : fu.displayName = "Ann"} :
          AuthSignedIn(firebaseUser)
    \/ \E r \in Pending :
          \E fullUser \in {u \in RemoteProfiles(
                IF r.op = "syncUserWithFirestore" THEN r.firebaseUser.uid ELSE "A") :
                u.bankAccount # JsNull} :
             SyncResolved(r, fullUser)
    \/ \E r \in Pending, userFunds \in TripFundResponses :
          FundsLoaded(r, userFunds)
    \/ CreateFundStart
    \/ \E r \in Pending : FundCreated(r)
    \/ \E fund \in LocalFunds \cup {NULL} : SelectFund(fund)
    \/ IntervalTick
    \/ RefreshInterval
    \/ \E r \in Pending : TransactionsLoaded(r, <<>>)
    \/ LogoutStart
    \/ \E r \in Pending, ok \in BOOLEAN : LogoutSettled(r, ok)

SelectionSpec == Init /\ [][SelectionNext]_vars

\* Copies of the transaction load for fundId in bag b.
LoadsFor(b, fundId) ==
    LET S == {r \in BagToSet(b) :
                r.op = "getFundTransactions" /\ r.fundId = fundId}
        RECURSIVE Sum(_)
        Sum(T) == IF T = {} THEN 0
                  ELSE LET x == CHOOSE y \in T : TRUE
                       IN  b[x] + Sum(T \ {x})
    IN  Sum(S)

\* The refresh timer follows the selection, and fires with the given
\* period: a load is issued when a fund becomes selected; the one interval
\* targets the selected fund and there is none without a selection or after
\* teardown; a refresh is issued for the selected fund, not before the
\* period has passed, and no time passes on an interval that is due.
TimerFollowsSelection ==
    IF selectedFund = NULL \/ phase = "torndown"
    THEN intervalId = NoTimer
    ELSE intervalId # NoTimer /\ intervalId.fundId = selectedFund.id

RefreshFollowsSelection(period) ==
    /\ TimerFollowsSelection'
    /\ (selectedFund' # selectedFund /\ selectedFund' # NULL) =>
          LoadsFor(inflight', selectedFund'.id)
             > LoadsFor(inflight, selectedFund'.id)
    /\ last'.op = "refresh" =>
          /\ selectedFund # NULL
          /\ last'.fundId = selectedFund.id
          /\ LoadsFor(inflight', selectedFund.id)
                = LoadsFor(inflight, selectedFund.id) + 1
          /\ intervalId.elapsed >= period
    /\ (intervalId # NoTimer /\ intervalId.elapsed >= period) =>
          intervalId'.elapsed <= intervalId.elapsed

\* C14, with the period of the code: the refresh timer follows the
\* selection and a refresh is issued every 30000 time units.
C14_RefreshEvery30000 ==
    TimerFollowsSelection /\ [][RefreshFollowsSelection(RefreshPeriodMs)]_vars

C14_Witness ==
    /\ last.op = "refresh"
    /\ selectedFund # NULL
    /\ selectedFund.id = "f3"
    /\ funds # <<>>
    /\ funds[1].id = "f1"

\* C14 as stated: the refresh timer follows the selection and a refresh is
\* issued every 30 time units.
C14_RefreshEvery30 ==
    TimerFollowsSelection /\ [][RefreshFollowsSelection(30)]_vars

(***************************************************************************)
(* Claims about the mutations of funds and transactions.                   *)
(***************************************************************************)
\* What getFundTransactions returns while t1 is stored and a transaction is
\* being created: nothing, t1, or t1 and the created transaction.
RaceResponses(fundId) ==
    LET t1 == CHOOSE t \in RawTransactions(fundId) : t.id = "t1" IN
    {<<>>, <<t1>>} \cup
    { <<t1, CreatedTransaction(TransactionWithDate(transaction))>> :
         transaction \in TransactionInputs }

\* One signed-in user with one fund, selected or not, and every mutation of
\* funds and transactions, each succeeding or failing.
MutationNext ==
    \/ Initialize
    \/ \E firebaseUser \in {fu \in FirebaseUsers : fu.displayName = "Ann"} :
          AuthSignedIn(firebaseUser)
    \/ \E r \in Pending :
          \E fullUser \in {u \in RemoteProfiles(
                IF r.op = "syncUserWithFirestore" THEN r.firebaseUser.uid ELSE "A") :
                u.bankAccount # JsNull} :
             SyncResolved(r, fullUser)
    \/ \E r \in Pending, userFunds \in TripFundResponses :
          FundsLoaded(r, userFunds)
    \/ \E fund \in LocalFunds \cup {NULL} : SelectFund(fund)
    \/ \E r \in Pending :
          \E fundTransactions \in RaceResponses(
                IF r.op = "getFundTransactions" THEN r.fundId ELSE "f1") :
             TransactionsLoaded(r, fundTransactions)
    \/ CreateFundStart
    \/ \E r \in Pending : FundCreated(r)
    \/ \E r \in Pending : CreateFundFailed(r)
    \/ \E fundId \in {"f1"} : DeleteFundStart(fundId)
    \/ \E r \in Pending : FundDeleted(r)
    \/ \E r \in Pending : DeleteFundFailed(r)
    \/ \E fundId \in {"f1"}, fundData \in FundUpdates :
          UpdateFundStart(fundId, fundData)
    \/ \E r \in Pending : FundUpdated(r)
    \/ \E r \in Pending : UpdateFundFailed(r)
    \/ \E transaction \in TransactionInputs : CreateTransactionStart(transaction)
    \/ \E r \in Pending : TransactionCreated(r)
    \/ \E r \in Pending : CreateTransactionFailed(r)
    \/ \E transactionId \in {"t1"} : DeleteTransactionStart(transactionId)
    \/ \E r \in Pending : TransactionDeleted(r)
    \/ \E r \in Pending : DeleteTransactionFailed(r)

MutationSpec == Init /\ [][MutationNext]_vars

MutationStarts ==
    {"createFund", "updateFund", "deleteFund", "createTransaction",
     "deleteTransaction"}
MutationFailures ==
    {"createFundFailed", "updateFundFailed", "deleteFundFailed",
     "createTransactionFailed", "deleteTransactionFailed"}

\* C15: a mutation changes none of funds, transactions and selectedFund
\* before its remote call has answered; when the remote call fails it
\* changes none of them either, throws nothing and returns false, or
\* undefined for the two create operations.
C15_FailedMutationChangesNothing ==
    [][ (last'.op \in MutationStarts \cup MutationFailures) =>
          /\ funds' = funds
          /\ transactions' = transactions
          /\ selectedFund' = selectedFund
          /\ last'.op \in MutationFailures =>
                /\ ~last'.threw
                /\ last'.returned =
                      IF last'.op \in {"createFundFailed", "createTransactionFailed"}
                      THEN "undefined" ELSE "false" ]_vars

C15_Witness ==
    /\ last.op = "deleteFundFailed"
    /\ last.returned = "false"
    /\ \E i \in DOMAIN funds : funds[i].id = "f1"
    /\ selectedFund # NULL
    /\ transactions # <<>>

TransactionIds(s) == { s[i].id : i \in DOMAIN s }
WithoutTransaction(s, id) == SelectSeq(s, LAMBDA t : t.id # id)
Occurrences(s, id) == Cardinality({ i \in DOMAIN s : s[i].id = id })

\* C16: of a transaction refresh and a createTransaction or
\* deleteTransaction that resolve one after the other, the later one
\* decides the collection.  A refresh that resolves after the mutation
\* leaves exactly the documents of its response.  A create that resolves
\* after the refresh leaves the refreshed collection with the created
\* transaction in it exactly once, the other transactions untouched; a
\* delete that resolves after the refresh leaves the refreshed collection
\* without the deleted transaction.
C16_LaterResolutionWins ==
    [][ /\ ( /\ last.op \in {"transactionCreated", "transactionDeleted"}
              /\ last'.op = "transactionsLoaded" ) =>
            /\ Len(transactions') = Len(last'.response)
            /\ TransactionIds(transactions') = TransactionIds(last'.response)
        /\ ( /\ last.op = "transactionsLoaded"
              /\ last'.op = "transactionCreated" ) =>
            /\ TransactionIds(transactions) = TransactionIds(last.response)
            /\ Occurrences(transactions', last'.created.id) = 1
            /\ \E i \in DOMAIN transactions' : transactions'[i] = last'.created
            /\ WithoutTransaction(transactions', last'.created.id)
                  = WithoutTransaction(transactions, last'.created.id)
        /\ ( /\ last.op = "transactionsLoaded"
              /\ last'.op = "transactionDeleted" ) =>
            /\ TransactionIds(transactions) = TransactionIds(last.response)
            /\ last'.deleted \notin TransactionIds(transactions')
            /\ transactions' = WithoutTransaction(transactions, last'.deleted)
      ]_vars

\* A create resolves after one refresh while another refresh is still in
\* flight.
C16_Witness ==
    /\ last.op = "transactionCreated"
    /\ Len(transactions) = 2
    /\ TransactionIds(transactions) = {"t1", "t4"}
    /\ \E r \in Pending : r.op = "getFundTransactions"

(***************************************************************************)
(* Claims about the user cache.                                            *)
(***************************************************************************)
\* The profile documents getUsersByIds may deliver for a user id: those of
\* RemoteProfiles and one whose displayName was never filled in.
StoreProfiles(uid) ==
    RemoteProfiles(uid) \cup
    { [id |-> uid, displayName |-> "", email |-> uid \o "@db",
       photoURL |-> "", bankAccount |-> JsNull] }

\* Results of getUsersByIds(ids) over those documents.
StoreUserMaps(ids) ==
    LET S == {ids[i] : i \in DOMAIN ids}
        All == UNION {StoreProfiles(id) : id \in S}
    IN  { m \in UNION {[T -> All] : T \in SUBSET S} :
            \A id \in DOMAIN m : m[id].id = id }

\* Lookups and batch loads of profiles, before and after "A" signs in.
UserNext ==
    \/ Initialize
    \/ \E firebaseUser \in {fu \in FirebaseUsers : fu.displayName = "Ann"} :
          AuthSignedIn(firebaseUser)
    \/ \E r \in Pending :
          \E fullUser \in {u \in RemoteProfiles(
                IF r.op = "syncUserWithFirestore" THEN r.firebaseUser.uid ELSE "A") :
                u.bankAccount # JsNull} :
             SyncResolved(r, fullUser)
    \/ \E r \in Pending, userFunds \in TripFundResponses :
          FundsLoaded(r, userFunds)
    \/ \E userIds \in LoadUsersInputs : LoadUsersCall(userIds)
    \/ \E r \in Pending :
          \E usersMap \in StoreUserMaps(
                IF r.op = "getUsersByIds" THEN r.ids ELSE <<>>) :
             UsersLoaded(r, usersMap)
    \/ \E r \in Pending : LoadUsersFailed(r)
    \/ \E id \in LookupIds : GetUserById(id)

UserSpec == Init /\ [][UserNext]_vars

\* The placeholder of an id no profile is held for.
IsPlaceholder(user, id) ==
    /\ user.id = id
    /\ user.displayName = "User " \o ShortId(id)
    /\ user.email = ""
    /\ user.photoURL = ""

\* getUserById(id) answered by precedence: the current user, else the
\* cached entry, else the placeholder; and nothing changed.
LookupByPrecedence(id, result) ==
    /\ IdOf(currentUser) = id => result = currentUser
    /\ (IdOf(currentUser) # id /\ id \in DOMAIN users) => result = users[id]
    /\ (IdOf(currentUser) # id /\ id \notin DOMAIN users) =>
          /\ IsPlaceholder(result, id)
          /\ id = "traveller" => result.displayName = "User trav"
    /\ UNCHANGED << currentUser, funds, transactions, selectedFund,
                    isAuthLoading, authInitialized, isLoading, users,
                    hasInitiallyLoaded, sessionStorage, hasRestoredFromCache,
                    phase, loadingTimeout, intervalId, now, inflight,
                    signedOut, dashboard >>

\* C17: for a non-empty id, getUserById(id) returns currentUser when id is
\* the current user's id (whatever the cache holds for it), otherwise the
\* cached entry when there is one, otherwise the placeholder with
\* displayName "User " and the first 4 characters of id, empty email and
\* photoURL; it changes no state.
C17_LookupPrecedence ==
    [][ (last'.op = "getUserById" /\ last'.id # "") =>
            LookupByPrecedence(last'.id, last'.result) ]_vars

\* The current user is looked up while the cache holds another profile for
\* the same id.
C17_Witness ==
    /\ last.op = "getUserById"
    /\ last.id = "A"
    /\ currentUser # NULL
    /\ "A" \in DOMAIN users
    /\ users["A"] # currentUser
    /\ last.result = currentUser

\* The same precedence for every id, the empty one included.
C17_LookupPrecedenceAnyId ==
    [][ (last'.op = "getUserById") =>
            LookupByPrecedence(last'.id, last'.result) ]_vars

\* C18: whatever currentUser and the users cache hold, profiles delivered
\* by the remote store included, getUserById(id) returns a user whose
\* displayName is not empty.
C18_DisplayNameNonEmpty ==
    last.op = "getUserById" => last.result.displayName \notin {"", JsNull}

\* C19: a call of loadUsers sends at most one getUsersByIds request; its
\* ids are, each once, the listed ids that are not empty, not the current
\* user's id and not yet in the users cache; when no listed id is left the
\* call sends nothing and changes no state, isLoading included.
C19_OneFilteredRequest ==
    [][ last'.op = "loadUsers" =>
          LET listed == { last'.userIds[i] : i \in DOMAIN last'.userIds }
              wanted == { id \in listed : /\ id # ""
                                          /\ id # IdOf(currentUser)
                                          /\ id \notin DOMAIN users }
          IN  IF wanted = {}
              THEN /\ inflight' = inflight
                   /\ ~last'.sent
                   /\ UNCHANGED << currentUser, funds, transactions,
                                   selectedFund, isAuthLoading, authInitialized,
                                   isLoading, users, hasInitiallyLoaded,
                                   sessionStorage, hasRestoredFromCache, phase,
                                   loadingTimeout, intervalId, now, signedOut, dashboard >>
              ELSE \E r \in BagToSet(inflight') :
                      /\ r.op = "getUsersByIds"
                      /\ inflight' = inflight (+) SetToBag({r})
                      /\ { r.ids[i] : i \in DOMAIN r.ids } = wanted
                      /\ Len(r.ids) = Cardinality(wanted) ]_vars

\* A list that names the current user, a cached id and the empty id is
\* passed, and nothing is sent.
C19_Witness ==
    /\ last.op = "loadUsers"
    /\ last.userIds = <<"A", "B", "A">>
    /\ ~last.sent
    /\ IdOf(currentUser) = "A"
    /\ "B" \in DOMAIN users
    /\ inflight = EmptyBag
    /\ ~isLoading

Listed(userIds) == { userIds[i] : i \in DOMAIN userIds }

BalanceInputs ==
    { [fundId |-> "f1", description |-> "Refund", amount |-> 100,
       paidBy |-> "B",
       splits |-> << [userId |-> "A", amount |-> 50],
                     [userId |-> "B", amount |-> -50] >>],
      [fundId |-> "f2", description |-> "Rent", amount |-> 30, paidBy |-> "B",
       splits |-> << [userId |-> "B", amount |-> 30] >>] }

\* Fund f1 is selected and loaded, transactions of f1 and f2 are created,
\* and the balances of either fund are computed.
BalanceNext ==
    \/ Initialize
    \/ \E firebaseUser \in {fu \in FirebaseUsers : fu.displayName = "Ann"} :
          AuthSignedIn(firebaseUser)
    \/ \E r \in Pending :
          \E fullUser \in {u \in RemoteProfiles(
                IF r.op = "syncUserWithFirestore" THEN r.firebaseUser.uid ELSE "A") :
                u.bankAccount # JsNull} :
             SyncResolved(r, fullUser)
    \/ \E r \in Pending, userFunds \in TripFundResponses :
          FundsLoaded(r, userFunds)
    \/ \E fund \in LocalFunds \cup {NULL} : SelectFund(fund)
    \/ \E r \in Pending :
          \E fundTransactions \in TransactionResponses(
                IF r.op = "getFundTransactions" THEN r.fundId ELSE "f1") :
             TransactionsLoaded(r, fundTransactions)
    \/ \E transaction \in BalanceInputs : CreateTransactionStart(transaction)
    \/ \E r \in Pending : TransactionCreated(r)
    \/ \E fundId \in FundIds : CalculateBalances(fundId)

BalanceSpec == Init /\ [][BalanceNext]_vars

\* The places (transaction, split) of the local collection where userId has
\* a split in fund fundId.
SplitPlaces(fundId, userId) ==
    { p \in UNION { {<<i, j>> : j \in DOMAIN transactions[i].splits} :
                      i \in DOMAIN transactions } :
        /\ transactions[p[1]].fundId = fundId
        /\ transactions[p[1]].splits[p[2]].userId = userId }

RECURSIVE SplitSum(_)
SplitSum(places) ==
    IF places = {} THEN 0
    ELSE LET p == CHOOSE q \in places : TRUE IN
         transactions[p[1]].splits[p[2]].amount + SplitSum(places \ {p})

\* C21: calculateBalances(fundId) returns one entry for each user id that
\* has a split in a local transaction of fund fundId and for no other, its
\* amount the sum of those splits (an entry of 0 included), and changes no
\* state.
C21_BalancesPerUser ==
    [][ last'.op = "calculateBalances" =>
          LET result == last'.result
              fundId == last'.fundId
              names  == { result[i].userId : i \in DOMAIN result }
          IN  /\ \A i, j \in DOMAIN result :
                    result[i].userId = result[j].userId => i = j
              /\ \A userId \in UserIds :
                    userId \in names <=> SplitPlaces(fundId, userId) # {}
              /\ names \subseteq UserIds
              /\ \A i \in DOMAIN result :
                    result[i].amount =
                       SplitSum(SplitPlaces(fundId, result[i].userId))
              /\ UNCHANGED << currentUser, funds, transactions, selectedFund,
                              isAuthLoading, authInitialized, isLoading, users,
                              hasInitiallyLoaded, sessionStorage,
                              hasRestoredFromCache, phase, loadingTimeout,
                              intervalId, now, inflight, signedOut, dashboard >>
      ]_vars

\* The balances of f1 are computed while the collection holds the lunch,
\* a taxi of f1 and a payment of f2.
C21_Witness ==
    /\ last.op = "calculateBalances"
    /\ last.fundId = "f1"
    /\ \E i \in DOMAIN transactions : transactions[i].fundId = "f2"
    /\ \E i \in DOMAIN last.result :
          last.result[i] = [userId |-> "A", amount |-> -50]
    /\ \E i \in DOMAIN last.result :
          last.result[i].userId = "B" /\ last.result[i].amount >= 50

\* The refund cancels the lunch: both users keep an entry of 0.
C21_WitnessZero ==
    /\ last.op = "calculateBalances"
    /\ last.result = << [userId |-> "A", amount |-> 0],
                        [userId |-> "B", amount |-> 0] >>

(***************************************************************************)
(* Claims about the fund collection under concurrent operations.           *)
(***************************************************************************)
\* C22: in every reachable state funds holds at most one fund per id,
\* whatever the interleaving of loadUserFunds, createFund, updateFund,
\* deleteFund and fetchFundById (no response holds an id twice).
C22_FundIdsUnique == UniqueIds(funds)

\* Fund f1 is loaded, selected and deleted while fund loads are pending.
DeleteNext ==
    \/ Initialize
    \/ \E firebaseUser \in {fu \in FirebaseUsers : fu.displayName = "Ann"} :
          AuthSignedIn(firebaseUser)
    \/ \E r \in Pending :
          \E fullUser \in {u \in RemoteProfiles(
                IF r.op = "syncUserWithFirestore" THEN r.firebaseUser.uid ELSE "A") :
                u.bankAccount # JsNull} :
             SyncResolved(r, fullUser)
    \/ LoadUserFundsCall
    \/ \E r \in Pending, userFunds \in TripFundResponses :
          FundsLoaded(r, userFunds)
    \/ \E fund \in LocalFunds \cup {NULL} : SelectFund(fund)
    \/ \E r \in Pending : TransactionsLoaded(r, <<>>)
    \/ \E fundId \in {"f1"} : DeleteFundStart(fundId)
    \/ \E r \in Pending : FundDeleted(r)
    \/ \E r \in Pending : DeleteFundFailed(r)

DeleteSpec == Init /\ [][DeleteNext]_vars

\* C23: when deleteFund(f) has succeeded, funds holds no fund of id f and
\* selectedFund is not f; and the next thing that happens does not bring f
\* back into funds unless it is a fund load whose response holds f.
C23_DeletedFundGone ==
    [][ /\ last'.op = "fundDeleted" =>
            /\ last'.fundId \notin SeqIds(funds')
            /\ IdOf(selectedFund') # last'.fundId
        /\ ( /\ last.op = "fundDeleted"
              /\ last.fundId \notin SeqIds(funds)
              /\ last.fundId \in SeqIds(funds') ) =>
            /\ last'.op = "fundsLoaded"
            /\ last.fundId \in last'.fetched ]_vars

(***************************************************************************)
(* Claims about the transaction collection between refreshes.              *)
(***************************************************************************)
DescendingByDate(s) ==
    \A i, j \in DOMAIN s : i < j => EffectiveDate(s[i]) >= EffectiveDate(s[j])

\* C24: a transaction collection that is in descending order of date is
\* still in descending order of date after createTransaction or
\* deleteTransactionById has patched it.
C24_MutationsKeepOrder ==
    [][ ( /\ last'.op \in {"transactionCreated", "transactionDeleted"}
          /\ DescendingByDate(transactions) ) =>
            DescendingByDate(transactions') ]_vars

\* getUserFunds results that hold both funds.
TwoFundResponses ==
    { s \in FundResponses :
        SeqIds(s) = FundIds /\ \A i \in DOMAIN s : s[i].name # "Trip v2" }

\* Two funds are loaded and selected in turn; the transaction loads of a
\* selection succeed or fail.
ScopeNext ==
    \/ Initialize
    \/ \E firebaseUser \in {fu \in FirebaseUsers : fu.displayName = "Ann"} :
          AuthSignedIn(firebaseUser)
    \/ \E r \in Pending :
          \E fullUser \in {u \in RemoteProfiles(
                IF r.op = "syncUserWithFirestore" THEN r.firebaseUser.uid ELSE "A") :
                u.bankAccount # JsNull} :
             SyncResolved(r, fullUser)
    \/ \E r \in Pending, userFunds \in TwoFundResponses :
          FundsLoaded(r, userFunds)
    \/ \E fund \in LocalFunds \cup {NULL} : SelectFund(fund)
    \/ \E r \in Pending :
          \E fundTransactions \in
                {s \in TransactionResponses(
                    IF r.op = "getFundTransactions" THEN r.fundId ELSE "f1") :
                    Len(s) <= 1} :
             TransactionsLoaded(r, fundTransactions)
    \/ \E r \in Pending : TransactionsFailed(r)

ScopeSpec == Init /\ [][ScopeNext]_vars

TransactionCalls ==
    {"getFundTransactions", "createFirebaseTransaction", "deleteTransaction"}

\* C25: while a fund is selected and no transaction load or mutation is
\* pending, every local transaction is of the selected fund.
C25_TransactionsOfSelectedFund ==
    ( /\ selectedFund # NULL
      /\ \A r \in Pending : r.op \notin TransactionCalls ) =>
        \A i \in DOMAIN transactions : transactions[i].fundId = selectedFund.id

(***************************************************************************)
(* Claims about the loading flag.                                          *)
(***************************************************************************)
\* The remote calls of the operations that set isLoading before they await.
StoreCalls ==
    {"getUsersByIds", "getUserFunds", "getFundTransactions", "createFund",
     "updateFirebaseFund", "deleteFundService", "createFirebaseTransaction",
     "deleteTransaction", "getFundById"}

\* C26: isLoading is true while a call of a store operation that set it is
\* pending, and false when none is.
C26_LoadingWhilePending ==
    isLoading <=> \E r \in Pending : r.op \in StoreCalls

(***************************************************************************)
(* Claims about the Dashboard page.                                        *)
(***************************************************************************)
(* Mutations without a current user.                                       *)
(***************************************************************************)
\* C28: with currentUser = null, createFund, updateFund, deleteFund,
\* createTransaction and deleteTransaction return their failure value
\* without calling the remote store and without changing local state.
C28_NoMutationWithoutUser ==
    [][ (currentUser = NULL /\ last'.op \in MutationStarts) =>
          /\ ~last'.sent
          /\ inflight' = inflight
          /\ last'.returned \in {"undefined", "false"}
          /\ UNCHANGED << funds, transactions, selectedFund, isLoading,
                          users >> ]_vars

(***************************************************************************)
\* The remote store holds a profile for "A" and none for the member "B":
\* what getUsersByIds(ids) answers.
StoreAnswer(ids) ==
    LET known == {ids[i] : i \in DOMAIN ids} \cap {"A"} IN
    [ id \in known |-> CHOOSE u \in RemoteProfiles(id) : u.bankAccount = "acct" ]

\* "A" signs in, the funds are loaded and the Dashboard loads the profiles
\* of their members.
DashboardNext ==
    \/ Initialize
    \/ Tick
    \/ LoadingTimeoutFires
    \/ \E firebaseUser \in {fu \in FirebaseUsers : fu.displayName = "Ann"} :
          AuthSignedIn(firebaseUser)
    \/ \E r \in Pending :
          \E fullUser \in {u \in RemoteProfiles(
                IF r.op = "syncUserWithFirestore" THEN r.firebaseUser.uid ELSE "A") :
                u.bankAccount # JsNull} :
             SyncResolved(r, fullUser)
    \/ \E r \in Pending, userFunds \in TripFundResponses :
          FundsLoaded(r, userFunds)
    \/ DashboardMount
    \/ DashboardEffect
    \/ \E r \in Pending :
          UsersLoaded(r, StoreAnswer(IF r.op = "getUsersByIds" THEN r.ids ELSE <<>>))
    \/ \E r \in Pending : LoadUsersFailed(r)

DashboardSpec == Init /\ [][DashboardNext]_vars

\* React runs a due effect after the render, and the remote store answers
\* every request.
FairDashboardSpec ==
    /\ DashboardSpec
    /\ WF_vars(DashboardEffect)
    /\ WF_vars(\E r \in Pending :
                  UsersLoaded(r, StoreAnswer(IF r.op = "getUsersByIds"
                                             THEN r.ids ELSE <<>>)))

\* C27: once the authentication events have stopped, and with them the
\* loads of the fund collection, the Dashboard's loading of member profiles
\* comes to an end: from some moment on its effect sends no further request
\* and usersLoadingForFunds stays false.
C27_ProfileLoadingTerminates ==
    \/ []<>(last.op = "authenticated")
    \/ <>[]( /\ ~dashboard.usersLoadingForFunds
             /\ ~(last.op = "dashboardEffect" /\ last.sent) )

(***************************************************************************)
(* The snapshot in sessionStorage.                                         *)
(***************************************************************************)
\* The session manager with refreshCurrentUser: the mount effect, the auth
\* events with a sync that succeeds or fails, the loading timeout, and the
\* fund loads the effect starts.
SnapshotNext ==
    \/ Initialize
    \/ Tick
    \/ LoadingTimeoutFires
    \/ \E firebaseUser \in FirebaseUsers : AuthSignedIn(firebaseUser)
    \/ AuthSignedOut
    \/ \E r \in Pending :
          \E fullUser \in RemoteProfiles(
                IF r.op = "syncUserWithFirestore" THEN r.firebaseUser.uid ELSE "A") :
             SyncResolved(r, fullUser)
    \/ \E r \in Pending : SyncRejected(r)
    \/ \E r \in Pending : FundsLoaded(r, <<>>)
    \/ RefreshCurrentUserStart
    \/ \E r \in Pending :
          \E refreshedUsers \in UserMaps(
                IF r.op = "refreshCurrentUser" THEN <<r.id>> ELSE <<>>) :
             CurrentUserRefreshed(r, refreshedUsers)
    \/ \E r \in Pending : RefreshCurrentUserFailed(r)

SnapshotSpec == Init /\ [][SnapshotNext]_vars

\* C29: once the mount effect has run, the snapshot is absent exactly when
\* currentUser is null, and otherwise parses to the value of currentUser.
C29_SnapshotMirrorsCurrentUser ==
    phase = "running" =>
       /\ sessionStorage = <<>> <=> currentUser = NULL
       /\ currentUser # NULL => JsonParse(sessionStorage[1]) = currentUser

\* The sync of user B failed after a sign-out and the fallback identity
\* was stored, with its snapshot.
C29_Witness ==
    /\ last.op = "syncRejected"
    /\ signedOut
    /\ currentUser # NULL
    /\ currentUser.displayName = "User"
    /\ sessionStorage # <<>>

\* A refresh that was pending over a sign-out brought the identity back,
\* with its snapshot.
C29_WitnessRefresh ==
    /\ last.op = "currentUserRefreshed"
    /\ signedOut
    /\ currentUser # NULL
    /\ currentUser.bankAccount = "acct"
    /\ sessionStorage # <<>>

====
